---- MODULE Spec2Model ----
(***************************************************************************)
(* Model of the meeting-search engine of chatbot/chatbotSearch/search.py:  *)
(* the temporal expression parser, the keyword extractor, the search       *)
(* orchestrator with its relaxation ladder, the statistics variant and the *)
(* task / participant / keyword entry points.                              *)
(*                                                                         *)
(* Texts are sequences of Unicode code points (the parser of this          *)
(* toolchain accepts no non-ASCII string literal); the text each tuple     *)
(* spells is given in the comment that follows it.                         *)
(***************************************************************************)
EXTENDS Integers, Sequences, FiniteSets, TLC

VARIABLES
    pq,      \* SpecParse: the query handed to parse_date_from_query
    pnow,    \* SpecParse: the value datetime.now() returns during the call
    pres,    \* SpecParse: the DateInfo returned
    ppc,     \* SpecParse: "ready" before the call, "parsed" after it
    kq,      \* SpecKeywords: the utterance handed to extract_keywords_from_query
    kres,    \* SpecKeywords: the keywords returned
    kagain,  \* SpecKeywords: the keywords returned for ' '.join(kres)
    kpc,     \* SpecKeywords: "ready", then "extracted", then "again"
    rmeetings,  \* SpecPersona: the rows handed to search_with_persona
    ruser_job,  \* SpecPersona: the persona tag handed to it
    rfinal,     \* SpecPersona: the list it returned
    rpc,        \* SpecPersona: "ready" before the call, "ranked" after it
    mtasks,     \* SpecMerge: the task rows handed to merge_tasks_and_actions
    mactions,   \* SpecMerge: the action item rows handed to it
    mmerged,    \* SpecMerge: the list it returned
    mpc,        \* SpecMerge: "ready" before the call, "merged" after it
    store,           \* Spec: the tables of the relational store
    enable_persona,  \* Spec: config.ENABLE_PERSONA
    pc,              \* Spec: the position of the running call ("idle" between calls)
    entry,           \* Spec: the entry point the caller invoked
    args,            \* Spec: the arguments of the running call
    loc,             \* Spec: its local variables
    open,            \* Spec: the store connections held, innermost last
    result,          \* Spec: what the call gave its caller
    hist             \* Spec: what the running call has done so far

parseVars == <<pq, pnow, pres, ppc>>
keywordVars == <<kq, kres, kagain, kpc>>
rankVars == <<rmeetings, ruser_job, rfinal, rpc>>
mergeVars == <<mtasks, mactions, mmerged, mpc>>
engineVars == <<store, enable_persona, pc, entry, args, loc, open, result, hist>>
vars == <<pq, pnow, pres, ppc, kq, kres, kagain, kpc, rmeetings, ruser_job, rfinal, rpc, mtasks, mactions, mmerged, mpc, store, enable_persona, pc, entry, args, loc, open, result, hist>>

(***************************************************************************)
(* Text                                                                    *)
(***************************************************************************)
\* s[p..] starts with sub
IsPrefixAt(s, p, sub) ==
    /\ p + Len(sub) - 1 <= Len(s)
    /\ \A i \in 1..Len(sub) : s[p + i - 1] = sub[i]

\* Python: sub in s
Contains(s, sub) == \E p \in 1..(Len(s) - Len(sub) + 1) : IsPrefixAt(s, p, sub)

\* Python: any(x in s for x in subs)
ContainsAny(s, subs) == \E sub \in subs : Contains(s, sub)

DigitChars == 48..57
SpaceChars == {9, 10, 11, 12, 13, 32}
UpperChars == 65..90
LowerChars == 97..122
HangulChars == 44032..55203

\* Python: int(digits)
RECURSIVE ParseInt(_)
ParseInt(ds) ==
    IF ds = <<>> THEN 0
    ELSE 10 * ParseInt(SubSeq(ds, 1, Len(ds) - 1)) + (ds[Len(ds)] - 48)

\* Python: str(n) for n >= 0
RECURSIVE IntText(_)
IntText(n) ==
    IF n < 10 THEN <<48 + n>> ELSE Append(IntText(n \div 10), 48 + (n % 10))

\* Python: s.lower() and s.upper() (only the ASCII letters have a case here)
Lower(s) == [i \in 1..Len(s) |-> IF s[i] \in UpperChars THEN s[i] + 32 ELSE s[i]]
Upper(s) == [i \in 1..Len(s) |-> IF s[i] \in LowerChars THEN s[i] - 32 ELSE s[i]]

\* Python: s.startswith(pre), s.endswith(suf)
StartsWith(s, pre) == IsPrefixAt(s, 1, pre)
EndsWith(s, suf) == Len(s) >= Len(suf) /\ IsPrefixAt(s, Len(s) - Len(suf) + 1, suf)

\* Python: s.strip()
RECURSIVE Strip(_)
Strip(s) ==
    IF s = <<>> THEN s
    ELSE IF s[1] \in SpaceChars THEN Strip(Tail(s))
    ELSE IF s[Len(s)] \in SpaceChars THEN Strip(SubSeq(s, 1, Len(s) - 1))
    ELSE s

\* Python: list(dict.fromkeys(xs)): the first occurrence of each element
RECURSIVE Dedup(_)
Dedup(xs) ==
    IF xs = <<>> THEN <<>>
    ELSE LET front == Dedup(SubSeq(xs, 1, Len(xs) - 1))
             x == xs[Len(xs)]
         IN  IF \E i \in 1..Len(front) : front[i] = x THEN front ELSE Append(front, x)

\* The elements of a sequence
Range(xs) == {xs[i] : i \in 1..Len(xs)}

\* Lexicographic order of two tuples of numbers, a prefix first: decided at
\* the first place where the two differ
SeqLE(a, b) ==
    LET m == IF Len(a) < Len(b) THEN Len(a) ELSE Len(b)
        differ == {i \in 1..m : a[i] # b[i]}
    IN  IF differ = {} THEN Len(a) <= Len(b)
        ELSE LET first == CHOOSE i \in differ : \A j \in differ : i <= j
             IN  a[first] < b[first]

\* Pair j of keyed stands before pair i in the sorted list: its key is
\* smaller, or the keys are equal and it came first
StandsBefore(keyed, j, i) ==
    IF keyed[j][1] = keyed[i][1] THEN j < i ELSE SeqLE(keyed[j][1], keyed[i][1])

\* Python: sorted(xs, key=...), a stable sort; keyed is the sequence of
\* <<key, x>> pairs, a key a tuple of numbers.  The place of a pair in the
\* result is one more than the number of pairs that stand before it.
SortedByKey(keyed) ==
    LET n == Len(keyed)
        place == <<>> \o [i \in 1..n |-> 1 + Cardinality({j \in 1..n : StandsBefore(keyed, j, i)})]
    IN  <<>> \o [p \in 1..n |-> keyed[CHOOSE i \in 1..n : place[i] = p][2]]

\* Python: re.sub('a|b|...', '', s) for literal alternatives, scanning from p
RECURSIVE RemoveAnyFrom(_, _, _)
RemoveAnyFrom(s, p, olds) ==
    IF p > Len(s) THEN <<>>
    ELSE IF \E old \in Range(olds) : IsPrefixAt(s, p, old)
    THEN LET i == CHOOSE i \in 1..Len(olds) :
                     /\ IsPrefixAt(s, p, olds[i])
                     /\ \A j \in 1..(i - 1) : ~IsPrefixAt(s, p, olds[j])
         IN  RemoveAnyFrom(s, p + Len(olds[i]), olds)
    ELSE <<s[p]>> \o RemoveAnyFrom(s, p + 1, olds)

RemoveAny(s, olds) == RemoveAnyFrom(s, 1, olds)

\* Python: s.split()
RECURSIVE SplitFrom(_, _, _)
SplitFrom(s, p, word) ==
    IF p > Len(s) THEN (IF word = <<>> THEN <<>> ELSE <<word>>)
    ELSE IF s[p] \in SpaceChars
    THEN (IF word = <<>> THEN <<>> ELSE <<word>>) \o SplitFrom(s, p + 1, <<>>)
    ELSE SplitFrom(s, p + 1, Append(word, s[p]))

Split(s) == SplitFrom(s, 1, <<>>)

\* The rows of a set as a sequence, by id
RECURSIVE SeqOfRows(_)
SeqOfRows(rows) ==
    IF rows = {} THEN <<>>
    ELSE LET r == CHOOSE x \in rows : \A y \in rows : x.id <= y.id
         IN  <<r>> \o SeqOfRows(rows \ {r})

(***************************************************************************)
(* re.search for the patterns the program uses: a pattern is a sequence of *)
(* items, each a unit (a literal text, or one character of a class) with a *)
(* greedy repetition {min,max}; max = -1 is unbounded.  cap marks a        *)
(* capturing group.                                                        *)
(***************************************************************************)
Lit(t) == [lit |-> t, cls |-> {}, min |-> 1, max |-> 1, cap |-> FALSE]
OptLit(t) == [lit |-> t, cls |-> {}, min |-> 0, max |-> 1, cap |-> FALSE]
Cls(S, lo, hi, c) == [lit |-> <<>>, cls |-> S, min |-> lo, max |-> hi, cap |-> c]
WsStar == Cls(SpaceChars, 0, -1, FALSE)
Num12 == Cls(DigitChars, 1, 2, TRUE)
Num4 == Cls(DigitChars, 4, 4, TRUE)

ReFail == [ok |-> FALSE, start |-> 0, end |-> 0, caps |-> <<>>]

\* Whether one unit of item it stands at position q of s
UnitAt(it, s, q) ==
    IF it.lit # <<>> THEN IsPrefixAt(s, q, it.lit)
    ELSE q <= Len(s) /\ s[q] \in it.cls

UnitLen(it) == IF it.lit # <<>> THEN Len(it.lit) ELSE 1

\* The number of consecutive units of it from position p on, at most hi
RECURSIVE RunLen(_, _, _, _)
RunLen(it, s, p, hi) ==
    IF hi = 0 \/ ~UnitAt(it, s, p) THEN 0
    ELSE 1 + RunLen(it, s, p + UnitLen(it), hi - 1)

\* Backtracking match of items i.. of re at position p: item i takes k units,
\* the most first (greedy)
RECURSIVE ReMatchAt(_, _, _, _), ReTry(_, _, _, _, _)
ReTry(re, i, s, p, k) ==
    IF k < re[i].min THEN ReFail
    ELSE LET w == k * UnitLen(re[i])
             r == ReMatchAt(re, i + 1, s, p + w)
         IN  IF r.ok
             THEN [ok |-> TRUE, start |-> p, end |-> r.end,
                   caps |-> IF re[i].cap THEN <<SubSeq(s, p, p + w - 1)>> \o r.caps
                            ELSE r.caps]
             ELSE ReTry(re, i, s, p, k - 1)

ReMatchAt(re, i, s, p) ==
    IF i > Len(re) THEN [ok |-> TRUE, start |-> p, end |-> p, caps |-> <<>>]
    ELSE ReTry(re, i, s, p,
               RunLen(re[i], s, p, IF re[i].max < 0 THEN Len(s) ELSE re[i].max))

\* Python: re.search(pattern, s): the leftmost match
RECURSIVE ReSearchFrom(_, _, _)
ReSearchFrom(re, s, p) ==
    IF p > Len(s) + 1 THEN ReFail
    ELSE LET r == ReMatchAt(re, 1, s, p)
         IN  IF r.ok THEN r ELSE ReSearchFrom(re, s, p + 1)

ReSearch(re, s) == ReSearchFrom(re, s, 1)

\* match.group(0)
Group0(s, m) == SubSeq(s, m.start, m.end - 1)

(***************************************************************************)
(* datetime                                                                *)
(***************************************************************************)
IsLeap(y) == (y % 4 = 0) /\ ((y % 100 # 0) \/ (y % 400 = 0))

DaysInMonth(y, m) ==
    IF m = 2 THEN (IF IsLeap(y) THEN 29 ELSE 28)
    ELSE IF m \in {4, 6, 9, 11} THEN 30 ELSE 31

\* datetime(y, m, d) raises ValueError unless this holds
ValidDate(y, m, d) ==
    /\ y \in 1..9999
    /\ m \in 1..12
    /\ d \in 1..DaysInMonth(y, m)

Dt(y, m, d, hh, mi, ss, us) ==
    [year |-> y, month |-> m, day |-> d,
     hour |-> hh, minute |-> mi, second |-> ss, microsecond |-> us]

\* The value None where a datetime is expected
NoDt == Dt(0, 0, 0, 0, 0, 0, 0)

PrevDay(t) ==
    IF t.day > 1 THEN [t EXCEPT !.day = t.day - 1]
    ELSE IF t.month > 1
         THEN [t EXCEPT !.month = t.month - 1, !.day = DaysInMonth(t.year, t.month - 1)]
         ELSE [t EXCEPT !.year = t.year - 1, !.month = 12, !.day = 31]

NextDay(t) ==
    IF t.day < DaysInMonth(t.year, t.month) THEN [t EXCEPT !.day = t.day + 1]
    ELSE IF t.month < 12
         THEN [t EXCEPT !.month = t.month + 1, !.day = 1]
         ELSE [t EXCEPT !.year = t.year + 1, !.month = 1, !.day = 1]

\* t + timedelta(days=n), n of either sign
RECURSIVE AddDays(_, _)
AddDays(t, n) ==
    IF n = 0 THEN t
    ELSE IF n > 0 THEN AddDays(NextDay(t), n - 1)
    ELSE AddDays(PrevDay(t), n + 1)

RECURSIVE DaysBeforeMonth(_, _)
DaysBeforeMonth(y, m) ==
    IF m = 1 THEN 0 ELSE DaysBeforeMonth(y, m - 1) + DaysInMonth(y, m - 1)

\* date.toordinal()
ToOrdinal(t) ==
    LET y == t.year - 1
    IN  y * 365 + (y \div 4) - (y \div 100) + (y \div 400)
        + DaysBeforeMonth(t.year, t.month) + t.day

\* date.weekday(): Monday is 0
Weekday(t) == (ToOrdinal(t) + 6) % 7

\* t.replace(hour=0, minute=0, second=0): the microsecond is kept
ReplaceHms(t, hh, mi, ss) == [t EXCEPT !.hour = hh, !.minute = mi, !.second = ss]

\* lexicographic order of datetimes
DtKey(t) == <<t.year, t.month, t.day, t.hour, t.minute, t.second, t.microsecond>>

DtLE(a, b) == SeqLE(DtKey(a), DtKey(b))
DtLT(a, b) == DtLE(a, b) /\ a # b

\* x.date() == y.date()
SameDate(a, b) == a.year = b.year /\ a.month = b.month /\ a.day = b.day

\* Python: abs((a - b).total_seconds()), kept exact as <<days, seconds,
\* microseconds>> with 0 <= seconds < 86400 and 0 <= microseconds < 10^6
SecondOfDay(t) == t.hour * 3600 + t.minute * 60 + t.second

TimeDistance(a, b) ==
    LET hi == IF DtLE(b, a) THEN a ELSE b
        lo == IF DtLE(b, a) THEN b ELSE a
        us == hi.microsecond - lo.microsecond
        ss == SecondOfDay(hi) - SecondOfDay(lo) - (IF us < 0 THEN 1 ELSE 0)
        dd == ToOrdinal(hi) - ToOrdinal(lo) - (IF ss < 0 THEN 1 ELSE 0)
    IN  <<dd, ss % 86400, us % 1000000>>

\* Python: str(t) of a datetime: 'YYYY-MM-DD HH:MM:SS', and '.ffffff' after
\* it when the microsecond is not zero
Digits(n, width) == [i \in 1..width |-> 48 + ((n \div (10 ^ (width - i))) % 10)]

DatetimeStr(t) ==
    Digits(t.year, 4) \o <<45>> \o Digits(t.month, 2) \o <<45>> \o Digits(t.day, 2) \o <<32>>
        \o Digits(t.hour, 2) \o <<58>> \o Digits(t.minute, 2) \o <<58>> \o Digits(t.second, 2)
        \o (IF t.microsecond # 0 THEN <<46>> \o Digits(t.microsecond, 6) ELSE <<>>)

(***************************************************************************)
(* parse_date_from_query                                                   *)
(***************************************************************************)
\* result = {'type': None, 'start_date': None, 'end_date': None, 'original': None}
NoDateInfo ==
    [type |-> "None", start_date |-> NoDt, end_date |-> NoDt,
     original |-> <<>>, recent_flag |-> FALSE]

DateInfo(k, s, e, o) ==
    [type |-> k, start_date |-> s, end_date |-> e, original |-> o,
     recent_flag |-> FALSE]

W_wol == <<50900>> (* 월 *)
W_il == <<51068>> (* 일 *)
W_nyeon == <<45380>> (* 년 *)
W_buteo == <<48512, 53552>> (* 부터 *)
W_oneul == <<50724, 45720>> (* 오늘 *)
W_kkaji == <<44620, 51648>> (* 까지 *)

MonthDay == <<Num12, Lit(W_wol), WsStar, Num12, Lit(W_il)>>

\* range_patterns of lines 62-67 (and again 188-193)
DayRangePatterns ==
    << MonthDay \o <<WsStar, Lit(W_buteo), WsStar>> \o MonthDay,
       MonthDay \o <<WsStar, Lit(W_buteo), WsStar, Lit(W_oneul), OptLit(W_kkaji)>>,
       MonthDay \o <<WsStar, Cls({45, 126}, 1, 1, FALSE), WsStar>> \o MonthDay,
       MonthDay \o <<WsStar, Cls({45, 126}, 1, 1, FALSE), WsStar, Lit(W_oneul)>> >>

\* f'{m}월 {d}일'
MonthDayText(m, d) == IntText(m) \o W_wol \o <<32>> \o IntText(d) \o W_il

\* DayRangeOne with result['type'] and result['start_date'] assigned before the
\* end date is built: an invalid end date leaves a half-filled result behind
DayRangeOne_HalfFilled(pattern, query, today) ==
    LET m == ReSearch(pattern, query)
    IN  IF ~m.ok \/ Contains(Group0(query, m), W_oneul) THEN NoDateInfo
        ELSE LET sm == ParseInt(m.caps[1])
                 sd == ParseInt(m.caps[2])
                 em == ParseInt(m.caps[3])
                 ed == ParseInt(m.caps[4])
             IN  IF ~ValidDate(today.year, sm, sd) THEN NoDateInfo
                 ELSE IF ~ValidDate(today.year, em, ed)
                 THEN DateInfo("range", Dt(today.year, sm, sd, 0, 0, 0, 0), NoDt, <<>>)
                 ELSE DateInfo("range",
                               Dt(today.year, sm, sd, 0, 0, 0, 0),
                               Dt(today.year, em, ed, 23, 59, 59, 0),
                               MonthDayText(sm, sd) \o W_buteo \o <<32>> \o MonthDayText(em, ed))

\* One pattern of the range loop: a DateInfo, or NoDateInfo when the pattern
\* does not match or datetime() raises ValueError (except ValueError: pass)
DayRangeOne(pattern, query, today) ==
    LET m == ReSearch(pattern, query)
    IN  IF ~m.ok THEN NoDateInfo
        ELSE IF Contains(Group0(query, m), W_oneul)
        THEN LET sm == ParseInt(m.caps[1])
                 sd == ParseInt(m.caps[2])
             IN  IF ValidDate(today.year, sm, sd)
                 THEN DateInfo("range",
                               Dt(today.year, sm, sd, 0, 0, 0, 0),
                               ReplaceHms(today, 23, 59, 59),
                               MonthDayText(sm, sd) \o W_buteo \o <<32>> \o W_oneul)
                 ELSE NoDateInfo
        ELSE LET sm == ParseInt(m.caps[1])
                 sd == ParseInt(m.caps[2])
                 em == ParseInt(m.caps[3])
                 ed == ParseInt(m.caps[4])
             IN  IF ValidDate(today.year, sm, sd) /\ ValidDate(today.year, em, ed)
                 THEN DateInfo("range",
                               Dt(today.year, sm, sd, 0, 0, 0, 0),
                               Dt(today.year, em, ed, 23, 59, 59, 0),
                               MonthDayText(sm, sd) \o W_buteo \o <<32>> \o MonthDayText(em, ed))
                 ELSE NoDateInfo

\* for pattern in range_patterns: the first pattern that returns
RECURSIVE DayRangeFrom(_, _, _)
DayRangeFrom(i, query, today) ==
    IF i > Len(DayRangePatterns) THEN NoDateInfo
    ELSE LET r == DayRangeOne(DayRangePatterns[i], query, today)
         IN  IF r.type # "None" THEN r ELSE DayRangeFrom(i + 1, query, today)

\* last day of month m of year y at 23:59:59 (next month minus one day)
MonthEnd(y, m) ==
    IF m = 12 THEN Dt(y, 12, 31, 23, 59, 59, 0)
    ELSE ReplaceHms(PrevDay(Dt(y, m + 1, 1, 0, 0, 0, 0)), 23, 59, 59)

\* lines 110-183: the named relative windows
RelativeWindow(query, today) ==
    IF Contains(query, W_oneul)
    THEN DateInfo("relative", ReplaceHms(today, 0, 0, 0),
                  ReplaceHms(today, 23, 59, 59), W_oneul)
    ELSE IF Contains(query, <<50612, 51228>> (* 어제 *))
    THEN LET yesterday == AddDays(today, -1)
         IN  DateInfo("relative", ReplaceHms(yesterday, 0, 0, 0),
                      ReplaceHms(yesterday, 23, 59, 59), <<50612, 51228>> (* 어제 *))
    ELSE IF ContainsAny(query, {<<51060, 48264, 51452>> (* 이번주 *), <<51060, 48264, 32, 51452>> (* 이번 주 *)})
    THEN LET start_of_week == AddDays(today, -Weekday(today))
             end_of_week == AddDays(start_of_week, 6)
         IN  DateInfo("relative", ReplaceHms(start_of_week, 0, 0, 0),
                      ReplaceHms(end_of_week, 23, 59, 59), <<51060, 48264, 51452>> (* 이번주 *))
    ELSE IF ContainsAny(query, {<<51648, 45212, 51452>> (* 지난주 *), <<51648, 45212, 32, 51452>> (* 지난 주 *), <<51200, 48264, 51452>> (* 저번주 *), <<51200, 48264, 32, 51452>> (* 저번 주 *)})
    THEN LET start_of_last_week == AddDays(today, -(Weekday(today) + 7))
             end_of_last_week == AddDays(start_of_last_week, 6)
         IN  DateInfo("relative", ReplaceHms(start_of_last_week, 0, 0, 0),
                      ReplaceHms(end_of_last_week, 23, 59, 59), <<51648, 45212, 51452>> (* 지난주 *))
    ELSE IF ContainsAny(query, {<<51060, 48264, 45804>> (* 이번달 *), <<51060, 48264, 32, 45804>> (* 이번 달 *)})
    THEN LET start_of_month == ReplaceHms([today EXCEPT !.day = 1], 0, 0, 0)
             end_of_month ==
                 IF today.month = 12
                 THEN ReplaceHms([today EXCEPT !.month = 12, !.day = 31], 23, 59, 59)
                 ELSE ReplaceHms(PrevDay([today EXCEPT !.month = today.month + 1,
                                                       !.day = 1]), 23, 59, 59)
         IN  DateInfo("relative", start_of_month, end_of_month, <<51060, 48264, 45804>> (* 이번달 *))
    ELSE IF ContainsAny(query, {<<51648, 45212, 45804>> (* 지난달 *), <<51648, 45212, 32, 45804>> (* 지난 달 *), <<51200, 48264, 45804>> (* 저번달 *), <<51200, 48264, 32, 45804>> (* 저번 달 *)})
    THEN LET last_month ==
                 IF today.month = 1
                 THEN [today EXCEPT !.year = today.year - 1, !.month = 12, !.day = 1]
                 ELSE [today EXCEPT !.month = today.month - 1, !.day = 1]
         IN  DateInfo("relative", ReplaceHms(last_month, 0, 0, 0),
                      ReplaceHms(PrevDay([today EXCEPT !.day = 1]), 23, 59, 59),
                      <<51648, 45212, 45804>> (* 지난달 *))
    ELSE IF ContainsAny(query, {<<52572, 44540>> (* 최근 *), <<50836, 51608>> (* 요즘 *)})
    THEN [DateInfo("relative", ReplaceHms(AddDays(today, -14), 0, 0, 0),
                   ReplaceHms(today, 23, 59, 59), <<52572, 44540>> (* 최근 *))
          EXCEPT !.recent_flag = TRUE]
    ELSE NoDateInfo

\* MonthOnly with datetime(year, month, 1) outside the try block: the
\* ValueError of an invalid month leaves the function
MonthOnly_NoTry(query, today) ==
    LET m == ReSearch(<<Num12, Lit(W_wol)>>, query)
        md == ReSearch(<<Cls(DigitChars, 1, 2, FALSE), Lit(W_wol), WsStar,
                         Cls(DigitChars, 1, 2, FALSE), Lit(W_il)>>, query)
    IN  IF m.ok /\ Contains(query, W_wol) /\ ~md.ok
        THEN LET month == ParseInt(m.caps[1])
             IN  IF ValidDate(today.year, month, 1)
                 THEN DateInfo("range", Dt(today.year, month, 1, 0, 0, 0, 0),
                               MonthEnd(today.year, month), IntText(month) \o W_wol)
                 ELSE DateInfo("ValueError", NoDt, NoDt, <<>>)
        ELSE NoDateInfo

\* lines 234-260: "N월" with no "N월 N일" anywhere in the query
MonthOnly(query, today) ==
    LET m == ReSearch(<<Num12, Lit(W_wol)>>, query)
        md == ReSearch(<<Cls(DigitChars, 1, 2, FALSE), Lit(W_wol), WsStar,
                         Cls(DigitChars, 1, 2, FALSE), Lit(W_il)>>, query)
    IN  IF m.ok /\ Contains(query, W_wol) /\ ~md.ok
        THEN LET month == ParseInt(m.caps[1])
             IN  IF ValidDate(today.year, month, 1)
                 THEN DateInfo("range", Dt(today.year, month, 1, 0, 0, 0, 0),
                               MonthEnd(today.year, month), IntText(month) \o W_wol)
                 ELSE NoDateInfo
        ELSE NoDateInfo

\* lines 263-285: "Y년 M월 D일", then "M월 D일"
SingleDate(query, today) ==
    LET ymd == ReSearch(<<Num4, Lit(W_nyeon), WsStar>> \o MonthDay, query)
        md == ReSearch(MonthDay, query)
        r1 == IF ymd.ok /\ ValidDate(ParseInt(ymd.caps[1]), ParseInt(ymd.caps[2]),
                                     ParseInt(ymd.caps[3]))
              THEN DateInfo("absolute",
                            Dt(ParseInt(ymd.caps[1]), ParseInt(ymd.caps[2]),
                               ParseInt(ymd.caps[3]), 0, 0, 0, 0),
                            Dt(ParseInt(ymd.caps[1]), ParseInt(ymd.caps[2]),
                               ParseInt(ymd.caps[3]), 23, 59, 59, 0),
                            Group0(query, ymd))
              ELSE NoDateInfo
        r2 == IF md.ok /\ ValidDate(today.year, ParseInt(md.caps[1]), ParseInt(md.caps[2]))
              THEN DateInfo("absolute",
                            Dt(today.year, ParseInt(md.caps[1]), ParseInt(md.caps[2]),
                               0, 0, 0, 0),
                            Dt(today.year, ParseInt(md.caps[1]), ParseInt(md.caps[2]),
                               23, 59, 59, 0),
                            Group0(query, md))
              ELSE NoDateInfo
    IN  IF r1.type # "None" THEN r1 ELSE r2

\* lines 288-291
MonthRangePatterns ==
    << <<Num12, Lit(W_wol), WsStar, Lit(<<126>> (* ~ *)), WsStar, Num12, Lit(W_wol)>>,
       <<Num12, Lit(W_wol \o W_buteo), WsStar, Num12, Lit(W_wol \o W_kkaji)>> >>

\* lines 293-314
MonthRangeOne(pattern, query, today) ==
    LET m == ReSearch(pattern, query)
    IN  IF ~m.ok THEN NoDateInfo
        ELSE LET sm == ParseInt(m.caps[1])
                 em == ParseInt(m.caps[2])
             IN  IF ValidDate(today.year, sm, 1)
                    /\ (em = 12 \/ ValidDate(today.year, em + 1, 1))
                 THEN DateInfo("range", Dt(today.year, sm, 1, 0, 0, 0, 0),
                               MonthEnd(today.year, em), Group0(query, m))
                 ELSE NoDateInfo

RECURSIVE MonthRangeFrom(_, _, _)
MonthRangeFrom(i, query, today) ==
    IF i > Len(MonthRangePatterns) THEN NoDateInfo
    ELSE LET r == MonthRangeOne(MonthRangePatterns[i], query, today)
         IN  IF r.type # "None" THEN r ELSE MonthRangeFrom(i + 1, query, today)

parse_date_from_query(query, today) ==
    LET r1 == DayRangeFrom(1, query, today)
    IN  IF r1.type # "None" THEN r1
        ELSE LET r2 == RelativeWindow(query, today)
        IN  IF r2.type # "None" THEN r2
        ELSE LET r3 == DayRangeFrom(1, query, today)
        IN  IF r3.type # "None" THEN r3
        ELSE LET r4 == MonthOnly(query, today)
        IN  IF r4.type # "None" THEN r4
        ELSE LET r5 == SingleDate(query, today)
        IN  IF r5.type # "None" THEN r5
        ELSE MonthRangeFrom(1, query, today)

(***************************************************************************)
(* extract_keywords_from_query                                             *)
(***************************************************************************)
AlnumChars == DigitChars \cup UpperChars \cup LowerChars

\* Python: re.findall('[S]{minlen,}', s) from position p on
RECURSIVE FindRuns(_, _, _, _)
FindRuns(s, p, S, minlen) ==
    IF p > Len(s) THEN <<>>
    ELSE LET n == RunLen(Cls(S, 1, 1, FALSE), s, p, Len(s))
         IN  IF n >= minlen THEN <<SubSeq(s, p, p + n - 1)>> \o FindRuns(s, p + n, S, minlen)
             ELSE FindRuns(s, p + 1, S, minlen)

W_hoeui == <<54924, 51032>> (* 회의 *)
W_miting == <<48120, 54021>> (* 미팅 *)
W_gwanryeon == <<44288, 47144>> (* 관련 *)
DateUnitChars == {50900, 51068, 45380}   \* 월 일 년

\* token.isdigit() for a run of ASCII letters and digits
IsDigits(token) == \A i \in 1..Len(token) : token[i] \in DigitChars

\* re.search(rf'{token}\s*[월일년]', utterance)
IsDateNumber(token, utterance) ==
    ReSearch(<<Lit(token), WsStar, Cls(DateUnitChars, 1, 1, FALSE)>>, utterance).ok

\* The tokens the loop over english_tokens appends
RECURSIVE EnglishKeywords(_, _)
EnglishKeywords(english_tokens, utterance) ==
    IF english_tokens = <<>> THEN <<>>
    ELSE LET token == english_tokens[1]
             rest == EnglishKeywords(Tail(english_tokens), utterance)
         IN  IF IsDigits(token) /\ IsDateNumber(token, utterance) THEN rest
             ELSE IF Len(token) >= 2 THEN <<Upper(token)>> \o rest
             ELSE IF token[1] \in UpperChars THEN <<token>> \o rest
             ELSE rest

\* The compound split: a token ending in 회의 or 관련 loses that ending
SplitCompound(token) ==
    IF EndsWith(token, W_hoeui) /\ Len(token) > 2 THEN SubSeq(token, 1, Len(token) - 2)
    ELSE IF EndsWith(token, W_gwanryeon) /\ Len(token) > 2 THEN SubSeq(token, 1, Len(token) - 2)
    ELSE token

\* The patterns of meaningless_patterns all have the shape
\* ^(pre)(middle)(suf)$ : an alternative of pre, then (midany) any text of at
\* least midmin characters, then an alternative of suf; an absent or optional
\* group contributes the empty text.
meaningless_patterns == <<
    \* line 441
    [pre |-> {<<50724, 45720>> (* 오늘 *), <<50612, 51228>> (* 어제 *), <<47784, 47112>> (* 모레 *), <<44536, 51228>> (* 그제 *), <<45236, 51068>> (* 내일 *)},
     suf |-> {<<51008>> (* 은 *), <<45716>> (* 는 *), <<50640>> (* 에 *), <<51032>> (* 의 *), <<46020>> (* 도 *), <<47564>> (* 만 *)} \cup {<<>>}, midmin |-> 0, midany |-> TRUE],
    \* line 442
    [pre |-> {<<51060, 48264, 51452>> (* 이번주 *), <<51648, 45212, 51452>> (* 지난주 *), <<45796, 51020, 51452>> (* 다음주 *), <<51200, 48264, 51452>> (* 저번주 *)},
     suf |-> {<<51008>> (* 은 *), <<45716>> (* 는 *), <<50640>> (* 에 *), <<51032>> (* 의 *), <<46020>> (* 도 *), <<47564>> (* 만 *)} \cup {<<>>}, midmin |-> 0, midany |-> TRUE],
    \* line 443
    [pre |-> {<<51060, 48264, 45804>> (* 이번달 *), <<51648, 45212, 45804>> (* 지난달 *), <<45796, 51020, 45804>> (* 다음달 *), <<51200, 48264, 45804>> (* 저번달 *)},
     suf |-> {<<51008>> (* 은 *), <<45716>> (* 는 *), <<50640>> (* 에 *), <<51032>> (* 의 *), <<46020>> (* 도 *), <<47564>> (* 만 *)} \cup {<<>>}, midmin |-> 0, midany |-> TRUE],
    \* line 444
    [pre |-> {<<52572, 44540>> (* 최근 *), <<50836, 51608>> (* 요즘 *), <<44540, 47000>> (* 근래 *), <<52572, 44540, 50640>> (* 최근에 *), <<50836, 51608, 50640>> (* 요즘에 *)},
     suf |-> {<<51008>> (* 은 *), <<45716>> (* 는 *), <<50640>> (* 에 *), <<51032>> (* 의 *)} \cup {<<>>}, midmin |-> 0, midany |-> TRUE],
    \* line 445
    [pre |-> {<<50732, 54644>> (* 올해 *), <<51089, 45380>> (* 작년 *), <<45236, 45380>> (* 내년 *), <<51116, 51089, 45380>> (* 재작년 *)},
     suf |-> {<<51008>> (* 은 *), <<45716>> (* 는 *), <<50640>> (* 에 *), <<51032>> (* 의 *)} \cup {<<>>}, midmin |-> 0, midany |-> TRUE],
    \* line 446
    [pre |-> {<<51060, 48264>> (* 이번 *), <<51648, 45212>> (* 지난 *), <<45796, 51020>> (* 다음 *), <<51200, 48264>> (* 저번 *), <<44536>> (* 그 *), <<51060>> (* 이 *), <<51200>> (* 저 *)},
     suf |-> {<<51452>> (* 주 *), <<45804>> (* 달 *), <<45380>> (* 년 *), <<54644>> (* 해 *)}, midmin |-> 0, midany |-> TRUE],
    \* line 449
    [pre |-> {<<54924, 51032>> (* 회의 *), <<48120, 54021>> (* 미팅 *), <<54924, 51032, 47197>> (* 회의록 *), <<49464, 48120, 45208>> (* 세미나 *), <<50892, 53356, 49397>> (* 워크샵 *)},
     suf |-> {<<44032>> (* 가 *), <<51060>> (* 이 *), <<51008>> (* 은 *), <<45716>> (* 는 *), <<51012>> (* 을 *), <<47484>> (* 를 *), <<50640>> (* 에 *), <<51032>> (* 의 *), <<51080, 50632>> (* 있었 *), <<51080, 45208>> (* 있나 *), <<50688>> (* 였 *), <<51064>> (* 인 *)} \cup {<<>>}, midmin |-> 0, midany |-> FALSE],
    \* line 452
    [pre |-> {<<50696, 51221>> (* 예정 *), <<50756, 47308>> (* 완료 *), <<51652, 54665>> (* 진행 *), <<45149, 45212>> (* 끝난 *), <<51648, 45212>> (* 지난 *), <<44284, 44144>> (* 과거 *), <<48120, 47000>> (* 미래 *)},
     suf |-> {<<46108>> (* 된 *), <<46104, 50612>> (* 되어 *), <<51060>> (* 이 *), <<51064>> (* 인 *), <<51032>> (* 의 *)} \cup {<<>>}, midmin |-> 0, midany |-> TRUE],
    \* line 453
    [pre |-> {<<51652, 54665, 51473>> (* 진행중 *), <<51652, 54665>> (* 진행 *), <<50756, 47308>> (* 완료 *), <<50696, 51221>> (* 예정 *), <<45149>> (* 끝 *)},
     suf |-> {<<51060>> (* 이 *), <<51064>> (* 인 *)} \cup {<<>>}, midmin |-> 0, midany |-> TRUE],
    \* line 456
    [pre |-> {<<47952>> (* 뭐 *), <<47924, 50631>> (* 무엇 *), <<47924, 49832>> (* 무슨 *), <<50612, 46500>> (* 어떤 *), <<50612, 45712>> (* 어느 *)},
     suf |-> {<<44032>> (* 가 *), <<47484>> (* 를 *), <<50640>> (* 에 *), <<50556>> (* 야 *), <<51648>> (* 지 *), <<50556>> (* 야 *), <<50688, 51648>> (* 였지 *), <<50688, 50612>> (* 였어 *), <<51080, 50632, 51648>> (* 있었지 *), <<51064, 51648>> (* 인지 *)} \cup {<<>>}, midmin |-> 0, midany |-> TRUE],
    \* line 457
    [pre |-> {<<50616, 51228>> (* 언제 *), <<50612, 46356>> (* 어디 *), <<45572, 44032>> (* 누가 *), <<45572, 44396>> (* 누구 *), <<50780>> (* 왜 *), <<50612, 46523, 44172>> (* 어떻게 *), <<50612, 52236>> (* 어찌 *)},
     suf |-> {<<44032>> (* 가 *), <<47484>> (* 를 *), <<50640>> (* 에 *), <<49436>> (* 서 *), <<51064, 51648>> (* 인지 *)} \cup {<<>>}, midmin |-> 0, midany |-> TRUE],
    \* line 458
    [pre |-> {<<47751>> (* 몇 *), <<50620, 47560>> (* 얼마 *), <<50612, 45712>> (* 어느 *)},
     suf |-> {<<44060>> (* 개 *), <<47749>> (* 명 *), <<48264>> (* 번 *), <<49884>> (* 시 *), <<48516>> (* 분 *), <<51068>> (* 일 *), <<51064, 51648>> (* 인지 *)} \cup {<<>>}, midmin |-> 0, midany |-> TRUE],
    \* line 461
    [pre |-> {<<>>},
     suf |-> {<<50632, 50612>> (* 었어 *), <<50632, 45208>> (* 었나 *), <<50632, 45768>> (* 었니 *), <<50632, 45716, 51648>> (* 었는지 *), <<50632, 51012, 44620>> (* 었을까 *), <<50632, 51012>> (* 었을 *), <<50632, 45912>> (* 었던 *)}, midmin |-> 1, midany |-> TRUE],
    \* line 462
    [pre |-> {<<>>},
     suf |-> {<<51080, 50612>> (* 있어 *), <<51080, 45208>> (* 있나 *), <<51080, 45768>> (* 있니 *), <<51080, 45716, 51648>> (* 있는지 *), <<51080, 51012, 44620>> (* 있을까 *), <<51080, 51012>> (* 있을 *), <<51080, 45716>> (* 있는 *), <<51080, 45912>> (* 있던 *)}, midmin |-> 1, midany |-> TRUE],
    \* line 463
    [pre |-> {<<>>},
     suf |-> {<<54664, 50612>> (* 했어 *), <<54664, 45208>> (* 했나 *), <<54664, 45768>> (* 했니 *), <<54664, 45716, 51648>> (* 했는지 *), <<54664, 51012, 44620>> (* 했을까 *), <<54664, 51012>> (* 했을 *), <<54664, 45912>> (* 했던 *), <<54632>> (* 함 *)}, midmin |-> 1, midany |-> TRUE],
    \* line 464
    [pre |-> {<<>>},
     suf |-> {<<51060, 50556>> (* 이야 *), <<51060, 45768>> (* 이니 *), <<51064, 51648>> (* 인지 *), <<51068, 44620>> (* 일까 *), <<51064, 44032>> (* 인가 *), <<51060, 50632>> (* 이었 *), <<51060, 50632, 50612>> (* 이었어 *)}, midmin |-> 1, midany |-> TRUE],
    \* line 465
    [pre |-> {<<>>},
     suf |-> {<<54616, 45716>> (* 하는 *), <<54616, 45768>> (* 하니 *), <<54624, 44620>> (* 할까 *), <<54624, 51648>> (* 할지 *), <<54616, 51648>> (* 하지 *), <<54620>> (* 한 *), <<54616, 45912>> (* 하던 *)}, midmin |-> 1, midany |-> TRUE],
    \* line 466
    [pre |-> {<<>>},
     suf |-> {<<46104, 45716>> (* 되는 *), <<46104, 45768>> (* 되니 *), <<46112, 44620>> (* 될까 *), <<46112, 51648>> (* 될지 *), <<46104, 51648>> (* 되지 *), <<46108>> (* 된 *), <<46104, 45912>> (* 되던 *)}, midmin |-> 1, midany |-> TRUE],
    \* line 467
    [pre |-> {<<>>},
     suf |-> {<<45208>> (* 나 *), <<45768>> (* 니 *), <<51648>> (* 지 *), <<44620>> (* 까 *), <<44032>> (* 가 *), <<45264>> (* 냐 *), <<45264, 44256>> (* 냐고 *)}, midmin |-> 1, midany |-> TRUE],
    \* line 468
    [pre |-> {<<>>},
     suf |-> {<<44060, 50556>> (* 개야 *), <<48264, 51060, 50556>> (* 번이야 *), <<44144, 50556>> (* 거야 *), <<44144, 45768>> (* 거니 *), <<47952, 50556>> (* 뭐야 *), <<47956, 44032>> (* 뭔가 *), <<47952, 51648>> (* 뭐지 *), <<51080, 50612>> (* 있어 *)}, midmin |-> 1, midany |-> TRUE],
    \* line 471
    [pre |-> {<<46041, 50504>> (* 동안 *), <<49324, 51060>> (* 사이 *), <<51473>> (* 중 *), <<46412>> (* 때 *), <<47924, 47157>> (* 무렵 *), <<44221>> (* 경 *), <<52196>> (* 쯤 *), <<44036>> (* 간 *), <<49884>> (* 시 *), <<48516>> (* 분 *), <<52488>> (* 초 *)},
     suf |-> {<<>>}, midmin |-> 0, midany |-> FALSE],
    \* line 472
    [pre |-> {<<45380>> (* 년 *), <<50900>> (* 월 *), <<51068>> (* 일 *), <<51452>> (* 주 *)},
     suf |-> {<<44036>> (* 간 *), <<46041, 50504>> (* 동안 *), <<49324, 51060>> (* 사이 *), <<51473>> (* 중 *), <<50640>> (* 에 *), <<50640, 45716>> (* 에는 *), <<50640, 46020>> (* 에도 *)} \cup {<<>>}, midmin |-> 0, midany |-> TRUE],
    \* line 475
    [pre |-> {<<>>},
     suf |-> {<<44032>> (* 가 *), <<51060>> (* 이 *), <<51008>> (* 은 *), <<45716>> (* 는 *), <<51012>> (* 을 *), <<47484>> (* 를 *), <<50640>> (* 에 *), <<51032>> (* 의 *), <<50752>> (* 와 *), <<44284>> (* 과 *), <<47196>> (* 로 *), <<51004, 47196>> (* 으로 *), <<48512, 53552>> (* 부터 *), <<44620, 51648>> (* 까지 *), <<47564>> (* 만 *), <<46020>> (* 도 *), <<51312, 52264>> (* 조차 *), <<47560, 51200>> (* 마저 *), <<48512, 53552>> (* 부터 *), <<54620, 53580>> (* 한테 *), <<44760>> (* 께 *), <<50640, 44172>> (* 에게 *)}, midmin |-> 1, midany |-> TRUE],
    \* line 476
    [pre |-> {<<>>},
     suf |-> {<<46972, 44256>> (* 라고 *), <<51060, 46972, 44256>> (* 이라고 *), <<46972, 45716>> (* 라는 *), <<51060, 46972, 45716>> (* 이라는 *), <<52376, 47100>> (* 처럼 *), <<44057, 51060>> (* 같이 *), <<47560, 45285>> (* 마냥 *), <<46319, 51060>> (* 듯이 *), <<45824, 47196>> (* 대로 *)}, midmin |-> 1, midany |-> TRUE],
    \* line 477
    [pre |-> {<<>>},
     suf |-> {<<50640, 49436>> (* 에서 *), <<50640, 44172>> (* 에게 *), <<54620, 53580, 49436>> (* 한테서 *), <<47196, 48512, 53552>> (* 로부터 *)}, midmin |-> 1, midany |-> TRUE],
    \* line 478
    [pre |-> {<<>>},
     suf |-> {<<46041, 50504>> (* 동안 *), <<49324, 51060>> (* 사이 *), <<51473>> (* 중 *), <<44620, 51648>> (* 까지 *)}, midmin |-> 1, midany |-> TRUE],
    \* line 481
    [pre |-> {<<51060>> (* 이 *), <<44536>> (* 그 *), <<51200>> (* 저 *), <<50836>> (* 요 *), <<51200, 44163>> (* 저것 *), <<51060, 44163>> (* 이것 *), <<44536, 44163>> (* 그것 *)},
     suf |-> {<<44032>> (* 가 *), <<51060>> (* 이 *), <<51008>> (* 은 *), <<45716>> (* 는 *), <<51012>> (* 을 *), <<47484>> (* 를 *)} \cup {<<>>}, midmin |-> 0, midany |-> TRUE],
    \* line 482
    [pre |-> {<<50668, 44592>> (* 여기 *), <<44144, 44592>> (* 거기 *), <<51200, 44592>> (* 저기 *), <<50612, 46356>> (* 어디 *)},
     suf |-> {<<49436>> (* 서 *), <<50640>> (* 에 *), <<47196>> (* 로 *), <<44032>> (* 가 *)} \cup {<<>>}, midmin |-> 0, midany |-> TRUE],
    \* line 483
    [pre |-> {<<51060, 47111, 44172>> (* 이렇게 *), <<44536, 47111, 44172>> (* 그렇게 *), <<51200, 47111, 44172>> (* 저렇게 *), <<50612, 46523, 44172>> (* 어떻게 *)},
     suf |-> {<<>>}, midmin |-> 0, midany |-> FALSE],
    \* line 486
    [pre |-> {<<51328>> (* 좀 *), <<50557, 44036>> (* 약간 *), <<51312, 44552>> (* 조금 *), <<47566, 51060>> (* 많이 *), <<50500, 51452>> (* 아주 *), <<50756, 51204>> (* 완전 *), <<51221, 47568>> (* 정말 *), <<51652, 51676>> (* 진짜 *), <<47588, 50864>> (* 매우 *), <<44900>> (* 꽤 *), <<51228, 48277>> (* 제법 *), <<45824, 45800, 55176>> (* 대단히 *), <<49345, 45817, 55176>> (* 상당히 *), <<44361, 51109, 55176>> (* 굉장히 *), <<50628, 52397>> (* 엄청 *), <<45320, 47924>> (* 너무 *), <<46104, 44172>> (* 되게 *), <<47924, 52377>> (* 무척 *), <<54141>> (* 퍽 *), <<52280>> (* 참 *)},
     suf |-> {<<>>}, midmin |-> 0, midany |-> FALSE],
    \* line 487
    [pre |-> {<<50500, 47560>> (* 아마 *), <<54841, 49884>> (* 혹시 *), <<47564, 50557>> (* 만약 *), <<51208, 45824>> (* 절대 *), <<44208, 53076>> (* 결코 *), <<51204, 54784>> (* 전혀 *), <<48324, 47196>> (* 별로 *)},
     suf |-> {<<>>}, midmin |-> 0, midany |-> FALSE],
    \* line 488
    [pre |-> {<<48744, 47532>> (* 빨리 *), <<52380, 52380, 55176>> (* 천천히 *), <<44049, 51088, 44592>> (* 갑자기 *), <<49836, 49836>> (* 슬슬 *), <<49436, 49436, 55176>> (* 서서히 *)},
     suf |-> {<<>>}, midmin |-> 0, midany |-> FALSE],
    \* line 491
    [pre |-> {<<44536, 47532, 44256>> (* 그리고 *), <<44536, 47084, 45208>> (* 그러나 *), <<54616, 51648, 47564>> (* 하지만 *), <<44536, 47088, 45936>> (* 그런데 *), <<44540, 45936>> (* 근데 *), <<44536, 47000, 49436>> (* 그래서 *), <<46384, 46972, 49436>> (* 따라서 *), <<44536, 47084, 48064, 47196>> (* 그러므로 *), <<44536, 47111, 51648, 47564>> (* 그렇지만 *), <<44536, 52824, 47564>> (* 그치만 *)},
     suf |-> {<<>>}, midmin |-> 0, midany |-> FALSE],
    \* line 492
    [pre |-> {<<44536, 47100>> (* 그럼 *), <<44536, 47000>> (* 그래 *), <<44536, 52824>> (* 그치 *), <<47582, 50500>> (* 맞아 *), <<47582, 51648>> (* 맞지 *), <<51025>> (* 응 *), <<45348>> (* 네 *), <<50696>> (* 예 *), <<50500, 45768>> (* 아니 *)},
     suf |-> {<<>>}, midmin |-> 0, midany |-> FALSE],
    \* line 495
    [pre |-> {<<52286, 50500>> (* 찾아 *), <<50508, 47140>> (* 알려 *), <<48372, 50668>> (* 보여 *), <<47568, 54644>> (* 말해 *), <<49444, 47749>> (* 설명 *), <<44032, 47476, 52432>> (* 가르쳐 *), <<44160, 49353>> (* 검색 *), <<50584, 44592>> (* 얘기 *), <<51060, 50556, 44592>> (* 이야기 *)},
     suf |-> {<<51480>> (* 줘 *), <<51452, 49464, 50836>> (* 주세요 *), <<48400>> (* 봐 *), <<51452>> (* 주 *), <<51460, 47000>> (* 줄래 *), <<51452, 49892, 47000>> (* 주실래 *)} \cup {<<>>}, midmin |-> 0, midany |-> TRUE],
    \* line 496
    [pre |-> {<<51480>> (* 줘 *), <<50500, 51480>> (* 아줘 *), <<54644, 51480>> (* 해줘 *)},
     suf |-> {<<>>}, midmin |-> 0, midany |-> FALSE],
    \* line 499
    [pre |-> {<<51080>> (* 있 *), <<50630>> (* 없 *), <<44228, 49884>> (* 계시 *)},
     suf |-> {<<50612>> (* 어 *), <<50632, 50612>> (* 었어 *), <<45208>> (* 나 *), <<45768>> (* 니 *), <<51012, 44620>> (* 을까 *), <<45716, 51648>> (* 는지 *), <<45912>> (* 던 *), <<45796>> (* 다 *), <<49901, 45768, 44620>> (* 십니까 *)}, midmin |-> 1, midany |-> TRUE],
    \* line 500
    [pre |-> {<<51080, 50612>> (* 있어 *), <<50630, 50612>> (* 없어 *), <<50630, 45208>> (* 없나 *), <<50630, 45768>> (* 없니 *)},
     suf |-> {<<>>}, midmin |-> 0, midany |-> FALSE],
    \* line 501
    [pre |-> {<<54616, 45208>> (* 하나 *), <<46168>> (* 둘 *), <<49483>> (* 셋 *), <<54620, 44060>> (* 한개 *), <<46160, 44060>> (* 두개 *), <<47751, 44060>> (* 몇개 *)},
     suf |-> {<<48150, 50640>> (* 밖에 *), <<47564>> (* 만 *), <<49104>> (* 뿐 *)} \cup {<<>>}, midmin |-> 0, midany |-> TRUE],
    \* line 504
    [pre |-> {<<44144>> (* 거 *), <<44163>> (* 것 *), <<44172>> (* 게 *)},
     suf |-> {<<50556>> (* 야 *), <<51064, 44032>> (* 인가 *), <<51064, 51648>> (* 인지 *), <<45264>> (* 냐 *), <<44620>> (* 까 *)} \cup {<<>>}, midmin |-> 0, midany |-> TRUE],
    \* line 505
    [pre |-> {<<44148, 44032>> (* 건가 *), <<44148, 51648>> (* 건지 *), <<44144, 45208>> (* 거나 *), <<44144, 46304>> (* 거든 *), <<44144, 50556>> (* 거야 *), <<44152, 44620>> (* 걸까 *)},
     suf |-> {<<>>}, midmin |-> 0, midany |-> FALSE],
    \* line 508
    [pre |-> {<<>>},
     suf |-> {<<50688, 45908, 46972>> (* 였더라 *), <<50688, 51648>> (* 였지 *), <<45908, 46972>> (* 더라 *), <<50688, 45208>> (* 였나 *), <<50688, 50612>> (* 였어 *), <<50688, 45716, 51648>> (* 였는지 *), <<50632, 45908, 46972>> (* 었더라 *), <<50632, 51648>> (* 었지 *)}, midmin |-> 1, midany |-> TRUE],
    \* line 509
    [pre |-> {<<44592, 50613>> (* 기억 *), <<49373, 44033>> (* 생각 *)},
     suf |-> {<<45208>> (* 나 *), <<50504, 45208>> (* 안나 *), <<47803>> (* 못 *), <<54644>> (* 해 *), <<54616, 45768>> (* 하니 *)} \cup {<<>>}, midmin |-> 0, midany |-> TRUE],
    \* line 512
    [pre |-> {<<44288, 47144>> (* 관련 *), <<45824, 54644>> (* 대해 *), <<44288, 54644>> (* 관해 *), <<45824, 54620>> (* 대한 *), <<44288, 54620>> (* 관한 *)},
     suf |-> {<<>>}, midmin |-> 0, midany |-> FALSE],
    \* line 513
    [pre |-> {<<45236, 50857>> (* 내용 *), <<51221, 48372>> (* 정보 *), <<49324, 54637>> (* 사항 *), <<54637, 47785>> (* 항목 *), <<51088, 47308>> (* 자료 *), <<45936, 51060, 53552>> (* 데이터 *)},
     suf |-> {<<>>}, midmin |-> 0, midany |-> FALSE],
    \* line 514
    [pre |-> {<<51204, 48512>> (* 전부 *), <<47784, 46160>> (* 모두 *), <<45796>> (* 다 *), <<51204, 52404>> (* 전체 *), <<47784, 46304>> (* 모든 *), <<44033>> (* 각 *), <<47784>> (* 모 *)},
     suf |-> {<<>>}, midmin |-> 0, midany |-> FALSE],
    \* line 515
    [pre |-> {<<54616, 45208>> (* 하나 *), <<46168>> (* 둘 *), <<49483>> (* 셋 *), <<50668, 47084>> (* 여러 *), <<47751, 47751>> (* 몇몇 *)},
     suf |-> {<<>>}, midmin |-> 0, midany |-> FALSE],
    \* line 516
    [pre |-> {<<50948, 54644>> (* 위해 *), <<50948, 54620>> (* 위한 *), <<45824, 47196>> (* 대로 *), <<47564, 53372>> (* 만큼 *), <<52376, 47100>> (* 처럼 *)},
     suf |-> {<<>>}, midmin |-> 0, midany |-> FALSE]
>>

\* re.match(pattern, token)
PatternMatches(pat, token) ==
    \E p \in pat.pre : \E s \in pat.suf :
        /\ StartsWith(token, p)
        /\ EndsWith(token, s)
        /\ Len(token) >= Len(p) + Len(s) + pat.midmin
        /\ pat.midany \/ Len(token) = Len(p) + Len(s)

IsMeaningless(token) ==
    \E i \in 1..Len(meaningless_patterns) : PatternMatches(meaningless_patterns[i], token)

NotMeaningless(token) == ~IsMeaningless(token)

extract_keywords_from_query(utterance) ==
    LET tokens == FindRuns(utterance, 1, HangulChars, 2)
                      \o EnglishKeywords(FindRuns(utterance, 1, AlnumChars, 1), utterance)
        processed_tokens == [i \in 1..Len(tokens) |-> SplitCompound(tokens[i])]
    IN  Dedup(SelectSeq(processed_tokens, NotMeaningless))

(***************************************************************************)
(* difflib.SequenceMatcher(None, a, b).ratio() for texts shorter than the  *)
(* 200 characters at which difflib starts to discard popular characters:   *)
(* ratio = 2 * M / (len(a) + len(b)), M the total size of the matching     *)
(* blocks.  A ratio is kept as the pair <<numerator, denominator>>.        *)
(***************************************************************************)
\* The length of the common run of a[i..ahi] and b[j..bhi]
RECURSIVE CommonRun(_, _, _, _, _, _)
CommonRun(a, i, ahi, b, j, bhi) ==
    IF i > ahi \/ j > bhi \/ a[i] # b[j] THEN 0
    ELSE 1 + CommonRun(a, i + 1, ahi, b, j + 1, bhi)

\* find_longest_match(alo, ahi, blo, bhi): the longest block, the one that
\* starts earliest in a and, among those, earliest in b
LongestMatch(a, alo, ahi, b, blo, bhi) ==
    LET cands == {<<i, j, CommonRun(a, i, ahi, b, j, bhi)>> : i \in alo..ahi, j \in blo..bhi}
        best == CHOOSE c \in cands :
                    \A d \in cands :
                        \/ d[3] < c[3]
                        \/ d[3] = c[3] /\ (c[1] < d[1] \/ (c[1] = d[1] /\ c[2] <= d[2]))
    IN  IF cands = {} THEN <<alo, blo, 0>> ELSE best

\* The total size of get_matching_blocks() within a[alo..ahi], b[blo..bhi]
RECURSIVE MatchingSize(_, _, _, _, _, _)
MatchingSize(a, alo, ahi, b, blo, bhi) ==
    IF alo > ahi \/ blo > bhi THEN 0
    ELSE LET m == LongestMatch(a, alo, ahi, b, blo, bhi)
         IN  IF m[3] = 0 THEN 0
             ELSE m[3] + MatchingSize(a, alo, m[1] - 1, b, blo, m[2] - 1)
                       + MatchingSize(a, m[1] + m[3], ahi, b, m[2] + m[3], bhi)

Ratio(a, b) ==
    IF Len(a) + Len(b) = 0 THEN <<1, 1>>
    ELSE <<2 * MatchingSize(a, 1, Len(a), b, 1, Len(b)), Len(a) + Len(b)>>

\* r >= n/d and r > q for ratios
RatioAtLeast(r, n, d) == r[1] * d >= n * r[2]
RatioGreater(r, q) == r[1] * q[2] > q[1] * r[2]

(***************************************************************************)
(* The relational store.  A store is a record of tables, each a set of     *)
(* rows.  An absent text (NULL, None) is Null, an absent id 0, an absent   *)
(* datetime NoDt.  Status names are texts like every other column value.   *)
(***************************************************************************)
Null == <<-1>>

SCHEDULED == <<83, 67, 72, 69, 68, 85, 76, 69, 68>> (* SCHEDULED *)
RECORDING == <<82, 69, 67, 79, 82, 68, 73, 78, 71>> (* RECORDING *)
COMPLETED == <<67, 79, 77, 80, 76, 69, 84, 69, 68>> (* COMPLETED *)
CANCELLED == <<67, 65, 78, 67, 69, 76, 76, 69, 68>> (* CANCELLED *)
TODO == <<84, 79, 68, 79>> (* TODO *)

\* Python truthiness of a text or None (an absent id is 0, an absent datetime
\* NoDt)
Truthy(t) == t # Null /\ t # <<>>

N_kim == <<44608, 52384, 49688>> (* 김철수 *)
N_lee == <<51060, 50689, 55148>> (* 이영희 *)

UserRows ==
    { [id |-> 1, name |-> N_kim, job |-> <<66, 65, 67, 75, 69, 78, 68, 95, 68, 69, 86, 69, 76, 79, 80, 69, 82>> (* BACKEND_DEVELOPER *)],
      [id |-> 2, name |-> N_lee, job |-> <<70, 82, 79, 78, 84, 69, 78, 68, 95, 68, 69, 86, 69, 76, 79, 80, 69, 82>> (* FRONTEND_DEVELOPER *)] }

UserJobOf(id) == (CHOOSE u \in UserRows : u.id = id).job

\* The clock reading of a request: Sunday 2025-06-15 10:15:30.250000
RequestNow == Dt(2025, 6, 15, 10, 15, 30, 250000)

\* The meetings a store is drawn from.  Meeting 3 was held earlier today and
\* is COMPLETED; meeting 4 was cancelled yesterday.
MeetingCatalog ==
    { [id |-> 1, title |-> <<46356, 51088, 51064, 32, 54924, 51032>> (* 디자인 회의 *), description |-> <<85, 73, 32, 49884, 50504, 32, 44160, 53664>> (* UI 시안 검토 *),
       status |-> COMPLETED, scheduled_at |-> Dt(2025, 6, 10, 14, 0, 0, 0), host_user_id |-> 1],
      [id |-> 2, title |-> <<46356, 51088, 51064, 32, 47532, 48624>> (* 디자인 리뷰 *), description |-> <<54532, 47200, 53944, 32, 54868, 47732, 32, 47532, 48624>> (* 프론트 화면 리뷰 *),
       status |-> SCHEDULED, scheduled_at |-> Dt(2025, 6, 20, 10, 0, 0, 0), host_user_id |-> 1],
      [id |-> 3, title |-> <<51452, 44036, 32, 48372, 44256>> (* 주간 보고 *), description |-> <<>>,
       status |-> COMPLETED, scheduled_at |-> Dt(2025, 6, 15, 9, 0, 0, 0), host_user_id |-> 2],
      [id |-> 4, title |-> <<48372, 50504, 32, 51216, 44160>> (* 보안 점검 *), description |-> <<52712, 50557, 51216, 32, 51216, 44160>> (* 취약점 점검 *),
       status |-> CANCELLED, scheduled_at |-> Dt(2025, 6, 14, 16, 0, 0, 0), host_user_id |-> 2] }

MeetingResultCatalog ==
    { [id |-> 11, meeting_id |-> 1, summary |-> <<46356, 51088, 51064, 32, 49884, 50504, 32, 54869, 51221>> (* 디자인 시안 확정 *)],
      [id |-> 13, meeting_id |-> 3, summary |-> <<65, 80, 73, 32, 48176, 54252, 32, 51068, 51221>> (* API 배포 일정 *)] }

ParticipantCatalog ==
    { [meeting_id |-> 1, name |-> N_kim], [meeting_id |-> 1, name |-> N_lee],
      [meeting_id |-> 2, name |-> N_kim],
      [meeting_id |-> 3, name |-> N_kim],
      [meeting_id |-> 4, name |-> N_kim], [meeting_id |-> 4, name |-> N_lee] }

TaskCatalog ==
    { [id |-> 21, user_id |-> 1, meeting_id |-> 1, title |-> <<49884, 50504, 32, 49688, 51221>> (* 시안 수정 *), assignee_name |-> N_kim,
       due_date |-> Dt(2025, 6, 12, 0, 0, 0, 0), status |-> TODO, updated_at |-> Dt(2025, 6, 10, 15, 0, 0, 0)],
      [id |-> 22, user_id |-> 2, meeting_id |-> 1, title |-> <<54868, 47732, 32, 44160, 49688>> (* 화면 검수 *), assignee_name |-> N_lee,
       due_date |-> Dt(2025, 6, 18, 0, 0, 0, 0), status |-> TODO, updated_at |-> Dt(2025, 6, 10, 16, 0, 0, 0)],
      [id |-> 23, user_id |-> 1, meeting_id |-> 3, title |-> <<48176, 54252, 32, 44277, 51648>> (* 배포 공지 *), assignee_name |-> N_kim,
       due_date |-> NoDt, status |-> COMPLETED, updated_at |-> Dt(2025, 6, 15, 9, 30, 0, 0)] }

ActionItemCatalog ==
    { [id |-> 31, meeting_result_id |-> 11, task |-> <<49884, 50504, 32, 44277, 50976>> (* 시안 공유 *), assignee_user_id |-> 2,
       due_date |-> Dt(2025, 6, 11, 0, 0, 0, 0), is_completed |-> 0, source |-> <<115, 117, 109, 109, 97, 114, 121>> (* summary *)],
      [id |-> 33, meeting_result_id |-> 13, task |-> <<51068, 51221, 32, 54869, 51221>> (* 일정 확정 *), assignee_user_id |-> 0,
       due_date |-> NoDt, is_completed |-> 1, source |-> <<115, 117, 109, 109, 97, 114, 121>> (* summary *)] }

\* keyword joined with meeting_result_keyword: the keyword names of a meeting
KeywordCatalog ==
    { [meeting_id |-> 1, name |-> <<46356, 51088, 51064>> (* 디자인 *)], [meeting_id |-> 2, name |-> <<46356, 51088, 51064>> (* 디자인 *)],
      [meeting_id |-> 3, name |-> <<48176, 54252>> (* 배포 *)] }

\* The store that holds the meetings ms of the catalog and the rows that
\* belong to them
StoreOf(ms) ==
    LET ids == {m.id : m \in ms}
        mrs == {r \in MeetingResultCatalog : r.meeting_id \in ids}
    IN  [ user |-> UserRows,
          meeting |-> ms,
          meeting_result |-> mrs,
          participant |-> {p \in ParticipantCatalog : p.meeting_id \in ids},
          task |-> {t \in TaskCatalog : t.meeting_id \in ids},
          action_item |-> {a \in ActionItemCatalog : a.meeting_result_id \in {r.id : r \in mrs}},
          keyword |-> {k \in KeywordCatalog : k.meeting_id \in ids} ]

MaxMeetings == 2

Stores == {StoreOf(ms) : ms \in {s \in SUBSET MeetingCatalog : Cardinality(s) <= MaxMeetings}}

(***************************************************************************)
(* The meeting queries.  The text of a statement is kept as its select     *)
(* list (a text, so that str.replace acts on it as it does in Python) and  *)
(* the conditions appended to "WHERE 1=1", one field per condition; a      *)
(* field left at its absent value is a condition that was not appended.    *)
(***************************************************************************)
SelectMeetingRows ==
    <<109, 46, 42, 44, 32, 109, 114, 46, 115, 117, 109, 109, 97, 114, 121, 44, 32, 109, 114, 46, 97, 103, 101, 110, 100, 97, 44, 32, 109, 114, 46, 112, 117, 114, 112, 111, 115, 101, 44, 32, 109, 114, 46, 105, 109, 112, 111, 114, 116, 97, 110, 99, 101, 95, 108, 101, 118, 101, 108, 44, 32, 109, 114, 46, 105, 109, 112, 111, 114, 116, 97, 110, 99, 101, 95, 114, 101, 97, 115, 111, 110>> (* m.*, mr.summary, mr.agenda, mr.purpose, mr.importance_level, mr.importance_reason *)
SelectCount == <<67, 79, 85, 78, 84, 40, 68, 73, 83, 84, 73, 78, 67, 84, 32, 109, 46, 105, 100, 41, 32, 97, 115, 32, 99, 111, 117, 110, 116>> (* COUNT(DISTINCT m.id) as count *)

\* FROM meeting m LEFT JOIN meeting_result mr INNER JOIN participant p WHERE 1=1
MeetingQuery(select) ==
    [ select |-> select,
      p_name |-> Null,          \* AND p.name = %s
      p_in |-> <<>>,            \* AND m.id IN (SELECT meeting_id FROM participant WHERE name IN (...))
      keywords |-> <<>>,        \* AND ((title LIKE k OR description LIKE k OR summary LIKE k) op ...)
      kw_op |-> "OR",
      start |-> NoDt,           \* AND scheduled_at >= %s
      end |-> NoDt,             \* AND scheduled_at <= %s
      status |-> Null,          \* AND status = %s
      not_before |-> NoDt,      \* AND scheduled_at >= %s   (the SCHEDULED rule)
      before |-> NoDt,          \* AND scheduled_at < %s    (the COMPLETED rule)
      id |-> 0,                 \* AND m.id = %s
      group_by |-> FALSE,       \* GROUP BY m.id
      order_by |-> FALSE,       \* ORDER BY scheduled_at DESC
      limit |-> 0 ]             \* LIMIT n

\* Python: text.replace(old, new)
RECURSIVE ReplaceFrom(_, _, _, _)
ReplaceFrom(text, p, old, new) ==
    IF p > Len(text) THEN <<>>
    ELSE IF IsPrefixAt(text, p, old) THEN new \o ReplaceFrom(text, p + Len(old), old, new)
    ELSE <<text[p]>> \o ReplaceFrom(text, p + 1, old, new)

Replace(text, old, new) == ReplaceFrom(text, 1, old, new)

\* col LIKE '%pat%' under the case-insensitive collation; NULL matches nothing
Like(col, pat) == col # Null /\ Contains(Lower(col), Lower(pat))

\* The summary the LEFT JOIN gives meeting m
SummaryOf(st, m) ==
    IF \E r \in st.meeting_result : r.meeting_id = m.id
    THEN (CHOOSE r \in st.meeting_result : r.meeting_id = m.id).summary
    ELSE Null

KeywordCondition(st, m, k) ==
    Like(m.title, k) \/ Like(m.description, k) \/ Like(SummaryOf(st, m), k)

\* The WHERE clause of q for meeting m joined with participant row p
MeetingMatches(st, q, m, p) ==
    /\ p.meeting_id = m.id
    /\ q.p_name # Null => p.name = q.p_name
    /\ q.p_in # <<>> =>
           \E x \in st.participant : x.meeting_id = m.id /\ x.name \in Range(q.p_in)
    /\ q.keywords # <<>> =>
           IF q.kw_op = "AND"
           THEN \A i \in 1..Len(q.keywords) : KeywordCondition(st, m, q.keywords[i])
           ELSE \E i \in 1..Len(q.keywords) : KeywordCondition(st, m, q.keywords[i])
    /\ q.start # NoDt => DtLE(q.start, m.scheduled_at)
    /\ q.end # NoDt => DtLE(m.scheduled_at, q.end)
    /\ q.status # Null => m.status = q.status
    /\ q.not_before # NoDt => DtLE(q.not_before, m.scheduled_at)
    /\ q.before # NoDt => DtLT(m.scheduled_at, q.before)
    /\ q.id # 0 => m.id = q.id

MatchingMeetings(st, q) ==
    {m \in st.meeting : \E p \in st.participant : MeetingMatches(st, q, m, p)}

\* A fetched meeting row: a fresh mapping of the selected columns
MeetingRow(st, m) ==
    [ id |-> m.id, title |-> m.title, description |-> m.description, status |-> m.status,
      scheduled_at |-> m.scheduled_at, host_user_id |-> m.host_user_id,
      summary |-> SummaryOf(st, m) ]

\* ORDER BY scheduled_at DESC (the catalog has no two meetings at one instant)
RECURSIVE NewestFirst(_)
NewestFirst(ms) ==
    IF ms = {} THEN <<>>
    ELSE LET m == CHOOSE x \in ms : \A y \in ms : DtLE(y.scheduled_at, x.scheduled_at)
         IN  <<m>> \o NewestFirst(ms \ {m})

\* Python: xs[:n]
Take(xs, n) == SubSeq(xs, 1, IF Len(xs) < n THEN Len(xs) ELSE n)

\* Whether the select list is an aggregate: the statement then yields one row
IsAggregate(select) == Contains(select, <<67, 79, 85, 78, 84, 40>> (* COUNT( *))

\* cursor.execute(q); cursor.fetchall()
FetchMeetings(st, q) ==
    IF IsAggregate(q.select)
    THEN <<[count |-> Cardinality(MatchingMeetings(st, q))]>>
    ELSE LET ordered == NewestFirst(MatchingMeetings(st, q))
             rows == <<>> \o [i \in 1..Len(ordered) |-> MeetingRow(st, ordered[i])]
         IN  IF q.limit > 0 THEN Take(rows, q.limit) ELSE rows

(***************************************************************************)
(* Persona ranking: calculate_relevance and search_with_persona            *)
(***************************************************************************)
job_keywords == <<
    [job |-> <<80, 82, 79, 74, 69, 67, 84, 95, 77, 65, 78, 65, 71, 69, 82>> (* PROJECT_MANAGER *),
     words |-> <<<<44592, 54925>> (* 기획 *), <<51204, 47029>> (* 전략 *), <<47196, 46300, 47605>> (* 로드맵 *), <<47785, 54364>> (* 목표 *), <<44228, 54925>> (* 계획 *), <<51068, 51221>> (* 일정 *), <<47560, 51068, 49828, 53668>> (* 마일스톤 *), <<54532, 47196, 51229, 53944>> (* 프로젝트 *), <<112, 109>> (* pm *), <<112, 111>> (* po *), <<49828, 54532, 47536, 53944>> (* 스프린트 *), <<49828, 52992, 51460>> (* 스케줄 *), <<47532, 49548, 49828>> (* 리소스 *)>>],
    [job |-> <<70, 82, 79, 78, 84, 69, 78, 68, 95, 68, 69, 86, 69, 76, 79, 80, 69, 82>> (* FRONTEND_DEVELOPER *),
     words |-> <<<<54532, 47200, 53944, 50644, 46300>> (* 프론트엔드 *), <<54532, 47200, 53944>> (* 프론트 *), <<117, 105>> (* ui *), <<117, 120>> (* ux *), <<114, 101, 97, 99, 116>> (* react *), <<118, 117, 101>> (* vue *), <<54868, 47732>> (* 화면 *), <<51064, 53552, 54168, 51060, 49828>> (* 인터페이스 *), <<46356, 51088, 51064>> (* 디자인 *), <<102, 114, 111, 110, 116, 101, 110, 100>> (* frontend *), <<102, 101>> (* fe *), <<52980, 54252, 45324, 53944>> (* 컴포넌트 *), <<48152, 51025, 54805>> (* 반응형 *)>>],
    [job |-> <<66, 65, 67, 75, 69, 78, 68, 95, 68, 69, 86, 69, 76, 79, 80, 69, 82>> (* BACKEND_DEVELOPER *),
     words |-> <<<<48177, 50644, 46300>> (* 백엔드 *), <<98, 97, 99, 107, 101, 110, 100>> (* backend *), <<97, 112, 105>> (* api *), <<49436, 48260>> (* 서버 *), <<45936, 51060, 53552, 48288, 51060, 49828>> (* 데이터베이스 *), <<115, 112, 114, 105, 110, 103>> (* spring *), <<110, 111, 100, 101>> (* node *), <<44060, 48156, 54016>> (* 개발팀 *), <<98, 101>> (* be *), <<102, 97, 115, 116, 97, 112, 105>> (* fastapi *), <<114, 101, 115, 116>> (* rest *), <<48176, 54252>> (* 배포 *), <<51064, 54532, 46972>> (* 인프라 *), <<49457, 45733>> (* 성능 *), <<50500, 53412, 53581, 52376>> (* 아키텍처 *)>>],
    [job |-> <<68, 65, 84, 65, 66, 65, 83, 69, 95, 65, 68, 77, 73, 78, 73, 83, 84, 82, 65, 84, 79, 82>> (* DATABASE_ADMINISTRATOR *),
     words |-> <<<<45936, 51060, 53552, 48288, 51060, 49828>> (* 데이터베이스 *), <<100, 97, 116, 97, 98, 97, 115, 101>> (* database *), <<100, 98>> (* db *), <<115, 113, 108>> (* sql *), <<53244, 47532>> (* 쿼리 *), <<52572, 51201, 54868>> (* 최적화 *), <<51064, 45937, 49828>> (* 인덱스 *), <<109, 121, 115, 113, 108>> (* mysql *), <<45936, 51060, 53552>> (* 데이터 *), <<100, 98, 97>> (* dba *), <<49828, 53412, 47560>> (* 스키마 *), <<47560, 51060, 44536, 47112, 51060, 49496>> (* 마이그레이션 *)>>],
    [job |-> <<83, 69, 67, 85, 82, 73, 84, 89, 95, 68, 69, 86, 69, 76, 79, 80, 69, 82>> (* SECURITY_DEVELOPER *),
     words |-> <<<<48372, 50504>> (* 보안 *), <<115, 101, 99, 117, 114, 105, 116, 121>> (* security *), <<52712, 50557, 51216>> (* 취약점 *), <<50516, 54840, 54868>> (* 암호화 *), <<51064, 51613>> (* 인증 *), <<44428, 54620>> (* 권한 *), <<115, 115, 108>> (* ssl *), <<48169, 54868, 48317>> (* 방화벽 *), <<51216, 44160>> (* 점검 *), <<48372, 50504, 51216, 44160>> (* 보안점검 *), <<52712, 50557, 51216, 51216, 44160>> (* 취약점점검 *)>>]
>>

\* job_keywords.get(user_job, [])
JobWords(user_job) ==
    IF \E i \in 1..Len(job_keywords) : job_keywords[i].job = user_job
    THEN job_keywords[CHOOSE i \in 1..Len(job_keywords) : job_keywords[i].job = user_job].words
    ELSE <<>>

\* Python: (value or '').lower()
LowerOrEmpty(t) == IF t = Null THEN <<>> ELSE Lower(t)

\* +10 for a title hit, +5 for a summary hit, +3 for a description hit
RECURSIVE WordScore(_, _, _, _)
WordScore(words, title, summary, description) ==
    IF words = <<>> THEN 0
    ELSE LET w == Lower(words[1])
         IN  (IF Contains(title, w) THEN 10 ELSE 0)
             + (IF summary # <<>> /\ Contains(summary, w) THEN 5 ELSE 0)
             + (IF description # <<>> /\ Contains(description, w) THEN 3 ELSE 0)
             + WordScore(Tail(words), title, summary, description)

calculate_relevance(meeting, user_job) ==
    WordScore(JobWords(user_job), LowerOrEmpty(meeting.title),
              LowerOrEmpty(meeting.summary), LowerOrEmpty(meeting.description))

\* Python: int(n * 0.3) (equal to 3n div 10 for every n below 2000)
ThresholdIndex(n) == (3 * n) \div 10

\* The distance of a row without a scheduled time: float('inf')
Infinity == <<2000000000, 0, 0>>

\* meeting['relevance_score'] = calculate_relevance(meeting, user_job)
ScoredRows(meetings, user_job) ==
    <<>> \o [i \in 1..Len(meetings) |->
                [relevance_score |-> calculate_relevance(meetings[i], user_job)] @@ meetings[i]]

\* meeting['time_distance']: the distance of scheduled_at from now
TimeDistances(meetings, current_time) ==
    <<>> \o [i \in 1..Len(meetings) |->
                IF meetings[i].scheduled_at = NoDt THEN Infinity
                ELSE TimeDistance(meetings[i].scheduled_at, current_time)]

\* scores[threshold_index] of the scores sorted highest first, or 0
RelevanceThreshold(scored) ==
    LET n == Len(scored)
        scores == SortedByKey([i \in 1..n |-> << <<0 - scored[i].relevance_score>>, scored[i].relevance_score>>])
    IN  IF ThresholdIndex(n) < n THEN scores[ThresholdIndex(n) + 1] ELSE 0

\* The upper tier by time distance, then the lower tier by score
TiersSorted(scored, dist, threshold) ==
    LET idx == [i \in 1..Len(scored) |-> i]
        IsHigh(i) == scored[i].relevance_score >= threshold
        IsLow(i) == scored[i].relevance_score < threshold
        Entry(i) == [row |-> scored[i], time_distance |-> dist[i]]
        ByDistance(high) == SortedByKey([k \in 1..Len(high) |-> <<dist[high[k]], Entry(high[k])>>])
        ByScore(low) == SortedByKey([k \in 1..Len(low) |->
                            << <<0 - scored[low[k]].relevance_score>>, Entry(low[k])>>])
    IN  ByDistance(SelectSeq(idx, IsHigh)) \o ByScore(SelectSeq(idx, IsLow))

\* The tiers of the scored rows
RankScored(scored, dist) == TiersSorted(scored, dist, RelevanceThreshold(scored))

\* final_sorted as it stands before the temporary field is removed: the rows
\* in their new order, each with its relevance_score and its time_distance
PersonaOrder(meetings, user_job, current_time) ==
    RankScored(ScoredRows(meetings, user_job), TimeDistances(meetings, current_time))

\* The report of the first three rows of final_sorted computes
\* int(m['time_distance'] / 86400); int(float('inf')) raises OverflowError
ReportRaises(final_sorted) ==
    \E i \in 1..Len(final_sorted) : i <= 3 /\ final_sorted[i].time_distance = Infinity

\* What the function does with final_sorted: the report raises, or the
\* temporary field is deleted and the rows are returned
ReportAndReturn(final_sorted) ==
    IF ReportRaises(final_sorted)
    THEN [raised |-> "OverflowError", final_sorted |-> <<>>]
    ELSE [raised |-> "no",
          final_sorted |-> <<>> \o [i \in 1..Len(final_sorted) |-> final_sorted[i].row]]

\* The outcome of a call: the error the report of the sorted rows raised, or
\* the rows in their new order, each with its relevance_score attached
search_with_persona(meetings, user_job, current_time) ==
    ReportAndReturn(PersonaOrder(meetings, user_job, current_time))

\* Before a call of search_with_persona: nothing returned, nothing raised
NoRanking == [raised |-> "no", final_sorted |-> <<>>]

\* The decorated rows written back over the stored meetings of the same id
StoreAfterDecoration_WriteBack(st, rows) ==
    LET scored == {i \in 1..Len(rows) : "id" \in DOMAIN rows[i]
                                         /\ DOMAIN rows[i] \cap {"relevance_score", "keyword_score"} # {}}
    IN  [st EXCEPT !.meeting = {m \in @ : \A i \in scored : rows[i].id # m.id}
                                 \cup {rows[i] : i \in scored}]

\* meeting['relevance_score'] = ..., meeting['keyword_score'] = ...: the rows
\* are the mappings the cursor returned to the caller, so the assignment
\* leaves the store as it is
StoreAfterDecoration(st, rows) == st

(***************************************************************************)
(* Requests, results and the bookkeeping of a call                         *)
(***************************************************************************)
\* date_info=None, and the dict test `if date_info:`
NoneDateInfo ==
    [type |-> "absent", start_date |-> NoDt, end_date |-> NoDt,
     original |-> <<>>, recent_flag |-> FALSE]

IsDict(d) == d.type # "absent"

\* The queries a caller sends
QueryCatalog ==
    { <<54924, 51032, 32, 47785, 47197, 32, 48372, 50668, 51480>> (* 회의 목록 보여줘 *),
      <<50724, 45720, 32, 54924, 51032, 32, 51080, 50612, 63>> (* 오늘 회의 있어? *),
      <<50612, 51228, 32, 54924, 51032, 47197>> (* 어제 회의록 *),
      <<46356, 51088, 51064, 32, 54924, 51032, 47197>> (* 디자인 회의록 *),
      <<50612, 51228, 32, 46356, 51088, 51064, 54016, 32, 54924, 51032, 47197>> (* 어제 디자인팀 회의록 *),
      <<54924, 51032, 47197, 32, 47751, 32, 44060>> (* 회의록 몇 개 *),
      <<44536, 44144, 32, 47952, 50556>> (* 그거 뭐야 *),
      <<46356, 51088, 51064, 32, 47532, 48624>> (* 디자인 리뷰 *),
      <<46356, 51088, 51064, 32, 54924, 51032, 32>> (* 디자인 회의 + a trailing blank *),
      <<51060, 48264, 32, 51452, 32, 46356, 51088, 51064, 54016, 32, 54924, 51032, 47197>> (* 이번 주 디자인팀 회의록 *) }

\* The requester: user_id (0 is None, 9 is no row of user), user_job,
\* selected_meeting_id (0 is None)
Requesters ==
    { [user_id |-> 0, user_job |-> Null, selected_meeting_id |-> 0],
      [user_id |-> 1, user_job |-> Null, selected_meeting_id |-> 0],
      [user_id |-> 1, user_job |-> <<66, 65, 67, 75, 69, 78, 68, 95, 68, 69, 86, 69, 76, 79, 80, 69, 82>> (* BACKEND_DEVELOPER *), selected_meeting_id |-> 0],
      [user_id |-> 1, user_job |-> Null, selected_meeting_id |-> 2],
      [user_id |-> 9, user_job |-> Null, selected_meeting_id |-> 0] }

StatusInputs == {Null, SCHEDULED, COMPLETED}

\* What parse_query_intent may answer
ParsedCatalog ==
    { [intent |-> "search", keywords |-> <<>>, status |-> Null, date_range |-> Null],
      [intent |-> "count_meetings", keywords |-> <<>>, status |-> Null, date_range |-> Null],
      [intent |-> "search", keywords |-> << <<46356, 51088, 51064>> (* 디자인 *) >>, status |-> SCHEDULED, date_range |-> <<50612, 51228>> (* 어제 *)] }

\* The date texts search_meeting_count is called with (parsed by the caller)
CountDateTexts == { <<54924, 51032>> (* 회의 *), <<51060, 48264, 32, 45804>> (* 이번 달 *) }

\* parse_date_from_query(text) at the clock reading of the request and
\* extract_keywords_from_query(text), for every text of the catalogs
DateTable ==
    [q \in (QueryCatalog \cup CountDateTexts \cup {p.date_range : p \in ParsedCatalog}) \ {Null}
        |-> parse_date_from_query(q, RequestNow)]
KeywordTable == [q \in QueryCatalog |-> extract_keywords_from_query(q)]

\* A message is kept as the template it was built from and the values put
\* into it: the requested state, the states named as found, and the text a
\* formatter made of rows
NoDetail == [format |-> "none", ids |-> <<>>]
Detail(format, rows) == [format |-> format, ids |-> [i \in 1..Len(rows) |-> rows[i].id]]

Msg(kind, requested, found, detail) ==
    [kind |-> kind, requested |-> requested, found |-> found, detail |-> detail]

Plain(kind) == Msg(kind, Null, {}, NoDetail)

\* format_single_meeting_with_persona if personas are on and the job is
\* known, else format_single_meeting
FormatSingle(meeting, user_job, persona_on) ==
    Detail(IF persona_on /\ Truthy(user_job) THEN "single_persona" ELSE "single", <<meeting>>)

\* format_multiple_meetings_short(rows, ...)
FormatMultiple(rows) == Detail("multiple", rows)

\* status_kr.get(s, s)
status_kr(s) ==
    IF s = COMPLETED THEN <<50756, 47308, 46108>> (* 완료된 *)
    ELSE IF s = SCHEDULED THEN <<50696, 51221, 46108>> (* 예정된 *)
    ELSE IF s = RECORDING THEN <<51652, 54665, 51473>> (* 진행중 *)
    ELSE s

NoResult == [outcome |-> "none", message |-> Plain("none"), records |-> <<>>, count |-> -1]

Returned(message, records) ==
    [outcome |-> "returned", message |-> message, records |-> records, count |-> -1]

Raised(kind) == [outcome |-> "raised", message |-> Plain(kind), records |-> <<>>, count |-> -1]

NoArgs ==
    [ user_query |-> <<>>, date_info |-> NoneDateInfo, status |-> Null, user_job |-> Null,
      selected_meeting_id |-> 0, user_id |-> 0, keywords |-> <<>>, user_name |-> Null,
      meeting_id |-> 0, query_type |-> "none", person_name |-> Null,
      keyword_name |-> Null ]

\* The frame of search_meeting_count
NoCount ==
    [ keywords |-> <<>>, date_info |-> NoneDateInfo, status |-> Null, user_job |-> Null,
      user_name |-> Null, query |-> MeetingQuery(SelectCount), count |-> 0,
      value |-> "unset", meetings |-> <<>>, ret |-> "none" ]

\* SELECT t.*, m.title as meeting_title FROM task t LEFT JOIN meeting m ...
\* WHERE <conditions> ORDER BY <order> LIMIT 10; an absent condition is 0,
\* Null or FALSE
TaskQuery ==
    [ user_id |-> 0, not_user_id |-> 0, meeting_id |-> 0, status |-> Null,
      from_today |-> FALSE, assignee_like |-> Null, order |-> "due" ]

\* The frame of search_tasks
NoTask ==
    [ current_user_name |-> Null, meeting_id |-> 0, found_name |-> Null, branch |-> "none",
      status |-> Null, query |-> TaskQuery, tasks |-> <<>>, meeting_title |-> Null ]

NoLoc ==
    [ user_name |-> Null, names |-> <<>>, keywords |-> <<>>, date_info |-> NoneDateInfo,
      status |-> Null, meetings |-> <<>>, meaningful |-> <<>>,
      pending |-> [message |-> Plain("none"), records |-> <<>>], c |-> NoCount,
      t |-> NoTask ]

\* What a call has done: the rungs it executed in order with their queries, the listing queries
\* and store calls it executed, whether a store call failed, the connections
\* it acquired and released and the most it held at once, the path
\* search_meetings_direct took, and whether every connection asked for was given
NoHist ==
    [ rungs |-> <<>>, queries |-> <<>>, listings |-> <<>>, calls |-> 0, store_failed |-> "no",
      acquired |-> 0, released |-> 0, max_open |-> 0, fallback_rows |-> <<>>,
      path |-> "none", connected |-> TRUE ]

\* `with get_db_connection() as c:` entered with a connection, and left
WithEnter(conns, c) == Append(conns, c)

\* A with block whose exit keeps the connection
WithExit_Leak(conns) == conns

WithExit(conns) == SubSeq(conns, 1, Len(conns) - 1)

Acquire(h, conns) ==
    [h EXCEPT !.acquired = @ + 1,
              !.max_open = IF Len(conns) > @ THEN Len(conns) ELSE @]

Release(h) == [h EXCEPT !.released = @ + 1]

\* get_db_connection() gave no connection
NotConnected(h) == [h EXCEPT !.connected = FALSE]

StoreCall(h) == [h EXCEPT !.calls = @ + 1]
StoreFailure(h, where) == [h EXCEPT !.calls = @ + 1, !.store_failed = where]

(***************************************************************************)
(* search_meetings_direct(user_query, date_info, status, user_job,         *)
(*                        selected_meeting_id, user_id)                    *)
(***************************************************************************)
list_patterns ==
    { <<47952>> (* 뭐 *), <<47785, 47197>> (* 목록 *), <<47532, 49828, 53944>> (* 리스트 *), <<51204, 52404>> (* 전체 *), <<47784, 46304>> (* 모든 *), <<45796>> (* 다 *), <<48372, 50668>> (* 보여 *), <<50508, 47140>> (* 알려 *), <<51080, 50612>> (* 있어 *), <<51080, 45208>> (* 있나 *), <<51080, 45768>> (* 있니 *) }
meeting_words == { <<54924, 51032>> (* 회의 *), <<48120, 54021>> (* 미팅 *) }
count_words == { <<47751>> (* 몇 *), <<44060, 49688>> (* 개수 *), <<54943, 49688>> (* 횟수 *), <<48264>> (* 번 *), <<52509>> (* 총 *) }
meeting_keywords == { <<54924, 51032>> (* 회의 *), <<48120, 54021>> (* 미팅 *), <<54924, 51032, 47197>> (* 회의록 *), <<45436, 51032>> (* 논의 *), <<48156, 54364>> (* 발표 *), <<48372, 44256>> (* 보고 *) }

\* has_meeting_word and has_list_pattern and is_short_query
IsListRequest(user_query) ==
    /\ ContainsAny(Lower(user_query), meeting_words)
    /\ ContainsAny(Lower(user_query), list_patterns)
    /\ Len(user_query) <= 20

\* The caller invokes the entry point
CallSearchMeetingsDirect ==
    /\ pc = "idle"
    /\ \E q \in QueryCatalog, who \in Requesters, s \in StatusInputs :
       \E d \in {NoneDateInfo, DateTable[q]} :
          /\ args' = [NoArgs EXCEPT !.user_query = q, !.date_info = d, !.status = s,
                                    !.user_job = who.user_job, !.user_id = who.user_id,
                                    !.selected_meeting_id = who.selected_meeting_id]
          /\ loc' = [NoLoc EXCEPT !.date_info = d, !.status = s]
          /\ pc' = IF who.user_id # 0 THEN "smd_pre_enter" ELSE "smd_main_enter"
    /\ entry' = "search_meetings_direct"
    /\ hist' = NoHist
    /\ result' = NoResult
    /\ UNCHANGED <<parseVars, keywordVars, rankVars, mergeVars, store, enable_persona, open>>

\* `with get_db_connection() as conn_temp:` of the requester lookup
SmdPreEnter ==
    /\ pc = "smd_pre_enter"
    /\ \E connected \in BOOLEAN :
          IF connected
          THEN /\ open' = WithEnter(open, "conn_temp")
               /\ hist' = Acquire(hist, open')
               /\ pc' = "smd_pre_user"
          ELSE /\ pc' = "smd_main_enter"
               /\ hist' = NotConnected(hist)
               /\ UNCHANGED open
    /\ UNCHANGED <<parseVars, keywordVars, rankVars, mergeVars, store, enable_persona, entry, args, loc, result>>

\* An exception that leaves the lookup block: the block releases conn_temp
\* and nothing catches the exception below the caller
RaiseFromPreLookup(where) ==
    /\ open' = WithExit(open)
    /\ hist' = Release(StoreFailure(hist, where))
    /\ result' = Raised("store_error")
    /\ pc' = "done"
    /\ UNCHANGED loc

\* SELECT name FROM user WHERE id = %s
SmdPreUser ==
    /\ pc = "smd_pre_user"
    /\ \E fails \in BOOLEAN :
          IF fails THEN RaiseFromPreLookup("user_name")
          ELSE /\ loc' = [loc EXCEPT !.user_name =
                              IF \E u \in store.user : u.id = args.user_id
                              THEN (CHOOSE u \in store.user : u.id = args.user_id).name
                              ELSE Null]
               /\ hist' = StoreCall(hist)
               /\ pc' = "smd_pre_participants"
               /\ UNCHANGED <<open, result>>
    /\ UNCHANGED <<parseVars, keywordVars, rankVars, mergeVars, store, enable_persona, entry, args>>

\* The names of a set in one fixed order
RECURSIVE SeqOfSet(_)
SeqOfSet(S) ==
    IF S = {} THEN <<>>
    ELSE LET x == CHOOSE x \in S : \A y \in S : SeqLE(x, y) \/ Len(x) < Len(y)
         IN  <<x>> \o SeqOfSet(S \ {x})

\* SELECT DISTINCT name FROM participant, and the names found in the query
SmdPreParticipants ==
    /\ pc = "smd_pre_participants"
    /\ \E fails \in BOOLEAN :
          IF fails THEN RaiseFromPreLookup("participant_names")
          ELSE /\ loc' = [loc EXCEPT !.names =
                              SeqOfSet({p.name : p \in {x \in store.participant :
                                  Contains(args.user_query, x.name) /\ x.name # loc.user_name}})]
               /\ hist' = StoreCall(hist)
               /\ pc' = "smd_pre_exit"
               /\ UNCHANGED <<open, result>>
    /\ UNCHANGED <<parseVars, keywordVars, rankVars, mergeVars, store, enable_persona, entry, args>>

\* The lookup block ends
SmdPreExit ==
    /\ pc = "smd_pre_exit"
    /\ open' = WithExit(open)
    /\ hist' = Release(hist)
    /\ pc' = "smd_main_enter"
    /\ UNCHANGED <<parseVars, keywordVars, rankVars, mergeVars, store, enable_persona, entry, args, loc, result>>

\* `with get_db_connection() as conn:`.  The name get_db_connection is local
\* to the function (it is imported inside `if user_id:`), so without a
\* user_id the statement raises UnboundLocalError.
SmdMainEnter ==
    /\ pc = "smd_main_enter"
    /\ IF args.user_id = 0
       THEN /\ result' = Raised("UnboundLocalError")
            /\ pc' = "done"
            /\ UNCHANGED <<open, hist, loc>>
       ELSE \E connected \in BOOLEAN :
               IF connected
               THEN /\ open' = WithEnter(open, "conn")
                    /\ hist' = Acquire(hist, open')
                    /\ pc' = "smd_route"
                    /\ UNCHANGED <<loc, result>>
               ELSE /\ result' = Returned(Plain("connection_failed"), <<>>)
                    /\ pc' = "done"
                    /\ hist' = NotConnected(hist)
                    /\ UNCHANGED <<open, loc>>
    /\ UNCHANGED <<parseVars, keywordVars, rankVars, mergeVars, store, enable_persona, entry, args>>


\* An exception raised inside the try block: the handler logs it and returns
\* the generic failure message with no records
CaughtWith(h) ==
    /\ loc' = [loc EXCEPT !.pending = [message |-> Plain("search_error"), records |-> <<>>]]
    /\ hist' = h
    /\ pc' = "smd_exit"

\* `return (message, records)` inside the with block
ReturnWith(l, message, records) ==
    /\ loc' = [l EXCEPT !.pending = [message |-> message, records |-> records]]
    /\ pc' = "smd_exit"

\* Python: a or b for optional texts, and for lists
OrElse(a, b) == IF Truthy(a) THEN a ELSE b
ListOrElse(a, b) == IF a # <<>> THEN a ELSE b

\* The hybrid step: parse_query_intent fills in what the patterns missed, a
\* count question is handed to search_meeting_count
SmdHybrid(keywords) ==
    LET is_count == ContainsAny(args.user_query, count_words)
        needs_llm == keywords = <<>> \/ ~Truthy(loc.status) \/ is_count
        proceed == /\ loc' = [loc EXCEPT !.keywords = keywords]
                   /\ pc' = "smd_rung0"
    IN  IF needs_llm /\ ContainsAny(args.user_query, meeting_keywords)
        THEN \E parsed \in ParsedCatalog :
                IF parsed.intent = "count_meetings"
                THEN /\ loc' = [loc EXCEPT !.keywords = keywords,
                                    !.c = [NoCount EXCEPT
                                              !.keywords = ListOrElse(keywords, parsed.keywords),
                                              !.date_info = loc.date_info,
                                              !.status = OrElse(loc.status, parsed.status),
                                              !.user_job = args.user_job,
                                              !.user_name = loc.user_name,
                                              !.ret = "smd_count_return"]]
                     /\ pc' = "smc_enter"
                ELSE /\ loc' = [loc EXCEPT
                                    !.keywords = ListOrElse(keywords, parsed.keywords),
                                    !.date_info =
                                        IF ~IsDict(loc.date_info) /\ Truthy(parsed.date_range)
                                        THEN DateTable[parsed.date_range]
                                        ELSE loc.date_info,
                                    !.status = OrElse(loc.status, parsed.status)]
                     /\ pc' = "smd_rung0"
        ELSE IF needs_llm /\ ~Truthy(loc.status) /\ keywords = <<>>
        THEN ReturnWith(loc, Plain("off_topic"), <<>>)
        ELSE proceed

\* The choice of path at the top of the try block
SmdRoute ==
    /\ pc = "smd_route"
    /\ IF IsListRequest(args.user_query)
       THEN pc' = "smd_list" /\ UNCHANGED loc /\ hist' = [hist EXCEPT !.path = "list"]
       ELSE LET keywords == KeywordTable[args.user_query]
            IN  IF keywords = <<>> /\ ~Truthy(loc.status) /\ IsDict(loc.date_info)
                THEN /\ pc' = "smd_dateonly"
                     /\ loc' = [loc EXCEPT !.keywords = keywords]
                     /\ hist' = [hist EXCEPT !.path = "date_only"]
                ELSE /\ SmdHybrid(keywords)
                     /\ hist' = [hist EXCEPT !.path = "hybrid"]
    /\ UNCHANGED <<parseVars, keywordVars, rankVars, mergeVars, store, enable_persona, entry, args, open, result>>

\* The listing statement of the two bypass paths.  It starts from
\* "... WHERE p.name = %s", which is only assigned when the requester has a
\* name.
ListingQuery(l, keywords, with_status) ==
    [MeetingQuery(SelectMeetingRows) EXCEPT
        !.p_name = l.user_name, !.p_in = l.names,
        !.keywords = keywords, !.kw_op = "OR",
        !.start = l.date_info.start_date, !.end = l.date_info.end_date,
        !.status = IF with_status /\ Truthy(l.status) THEN l.status ELSE Null,
        !.group_by = TRUE, !.order_by = TRUE, !.limit = 20]

\* if ENABLE_PERSONA and user_job and len(meetings) > 1: search_with_persona
\* (every meeting of the catalog has a scheduled time, so the call returns)
PersonaSorted(meetings) ==
    IF enable_persona /\ Truthy(args.user_job) /\ Len(meetings) > 1
    THEN search_with_persona(meetings, args.user_job, RequestNow).final_sorted
    ELSE meetings

\* The list-style request: build and execute the listing statement
SmdListQuery ==
    /\ pc = "smd_list"
    /\ LET list_keywords == KeywordTable[args.user_query]
           q == ListingQuery(loc, list_keywords, TRUE)
       IN  IF ~Truthy(loc.user_name) \/ ~IsDict(loc.date_info)
           THEN \* UnboundLocalError (query, params) or AttributeError (date_info.get)
                CaughtWith(hist)
           ELSE \E fails \in BOOLEAN :
                   IF fails THEN CaughtWith(StoreFailure(hist, "listing"))
                   ELSE /\ loc' = [loc EXCEPT !.keywords = list_keywords,
                                               !.meetings = FetchMeetings(store, q)]
                        /\ hist' = [StoreCall(hist) EXCEPT !.listings = Append(@, q)]
                        /\ pc' = "smd_list_finish"
    /\ UNCHANGED <<parseVars, keywordVars, rankVars, mergeVars, store, enable_persona, entry, args, open, result>>

\* SELECT name FROM participant WHERE meeting_id = %s, attached to the row
WithParticipants(st, row) ==
    [participants |-> SeqOfSet({p.name : p \in {x \in st.participant : x.meeting_id = row.id}})]
        @@ row

\* The participants of each listed meeting, then the answer
SmdListFinish ==
    /\ pc = "smd_list_finish"
    /\ \E fails \in {FALSE} \cup {Len(loc.meetings) > 0} :
          IF fails THEN CaughtWith(StoreFailure(hist, "participants"))
          ELSE LET fetched == [i \in 1..Len(loc.meetings) |-> WithParticipants(store, loc.meetings[i])]
                   meetings == PersonaSorted(fetched)
               IN  /\ hist' = [hist EXCEPT !.calls = @ + Len(fetched)]
                   /\ IF meetings = <<>>
                      THEN ReturnWith(loc, Plain(IF Truthy(loc.date_info.original)
                                                 THEN "no_meeting_on_date" ELSE "no_meetings_yet"), <<>>)
                      ELSE IF Len(meetings) = 1
                      THEN ReturnWith(loc, Msg("detail", Null, {},
                                               FormatSingle(meetings[1], args.user_job, enable_persona)),
                                      meetings)
                      ELSE ReturnWith(loc, Msg("list", Null, {}, FormatMultiple(Take(meetings, 10))),
                                      meetings)
    /\ store' = StoreAfterDecoration(store, loc'.pending.records)
    /\ UNCHANGED <<parseVars, keywordVars, rankVars, mergeVars, enable_persona, entry, args, open, result>>

\* The date-only request: build and execute the listing statement
SmdDateOnlyQuery ==
    /\ pc = "smd_dateonly"
    /\ LET q == ListingQuery(loc, <<>>, FALSE)
       IN  IF ~Truthy(loc.user_name)
           THEN CaughtWith(hist)      \* UnboundLocalError (query)
           ELSE \E fails \in BOOLEAN :
                   IF fails THEN CaughtWith(StoreFailure(hist, "listing"))
                   ELSE /\ loc' = [loc EXCEPT !.meetings = FetchMeetings(store, q)]
                        /\ hist' = [StoreCall(hist) EXCEPT !.listings = Append(@, q)]
                        /\ pc' = IF FetchMeetings(store, q) = <<>>
                                 THEN "smd_dateonly_diag" ELSE "smd_dateonly_finish"
    /\ UNCHANGED <<parseVars, keywordVars, rankVars, mergeVars, store, enable_persona, entry, args, open, result>>

\* The listing came back empty: a fixed diagnostic COUNT statement is
\* executed and its result printed, then the answer
SmdDateOnlyDiag ==
    /\ pc = "smd_dateonly_diag"
    /\ \E fails \in BOOLEAN :
          IF fails THEN CaughtWith(StoreFailure(hist, "diagnostic"))
          ELSE /\ hist' = StoreCall(hist)
               /\ ReturnWith(loc, Plain("no_meeting_on_date"), <<>>)
    /\ UNCHANGED <<parseVars, keywordVars, rankVars, mergeVars, store, enable_persona, entry, args, open, result>>

\* The listing has rows: always the multi-meeting short list
SmdDateOnlyFinish ==
    /\ pc = "smd_dateonly_finish"
    /\ LET meetings == PersonaSorted(loc.meetings)
       IN  ReturnWith(loc, Msg("list", Null, {}, FormatMultiple(Take(meetings, 10))), meetings)
    /\ store' = StoreAfterDecoration(store, loc'.pending.records)
    /\ UNCHANGED <<parseVars, keywordVars, rankVars, mergeVars, enable_persona, entry, args, open, result, hist>>


\* date_info and date_info.get('start_date') / .get('end_date') / .get('original')
HasStart(d) == IsDict(d) /\ d.start_date # NoDt
HasEnd(d) == IsDict(d) /\ d.end_date # NoDt
HasOriginal(d) == IsDict(d) /\ Truthy(d.original)

\* Whether the window is the single day of the request
is_today_query(d, now) ==
    /\ HasStart(d) /\ HasEnd(d)
    /\ SameDate(d.start_date, d.end_date)
    /\ SameDate(d.end_date, now)

\* datetime.now().replace(hour=0, minute=0, second=0, microsecond=0)
TodayStart(now) == Dt(now.year, now.month, now.day, 0, 0, 0, 0)

\* The primary statement
PrimaryQuery(l, selected_meeting_id, now) ==
    LET state_applies == Truthy(l.status) /\ ~is_today_query(l.date_info, now)
    IN  [MeetingQuery(SelectMeetingRows) EXCEPT
            !.p_name = l.user_name,
            !.keywords = l.keywords,
            !.kw_op = IF Len(l.keywords) > 1 THEN "AND" ELSE "OR",
            !.start = IF HasStart(l.date_info) THEN l.date_info.start_date ELSE NoDt,
            !.end = IF HasEnd(l.date_info) THEN l.date_info.end_date ELSE NoDt,
            !.status = IF state_applies THEN l.status ELSE Null,
            !.not_before = IF state_applies /\ l.status = SCHEDULED THEN TodayStart(now) ELSE NoDt,
            !.before = IF state_applies /\ l.status = COMPLETED THEN TodayStart(now) ELSE NoDt,
            !.id = selected_meeting_id,
            !.group_by = TRUE, !.order_by = TRUE, !.limit = 50]

\* A variant of the exact-title step that keeps the first row, not the row
\* whose title matched
RECURSIVE ExactTitle_FirstRow(_, _, _)
ExactTitle_FirstRow(meetings, i, user_query) ==
    IF i > Len(meetings) THEN meetings
    ELSE IF Strip(Lower(user_query)) = Strip(Lower(meetings[i].title)) THEN <<meetings[1]>>
    ELSE ExactTitle_FirstRow(meetings, i + 1, user_query)

\* The first row whose title is the whole query, if there is more than one row
RECURSIVE ExactTitle(_, _, _)
ExactTitle(meetings, i, user_query) ==
    IF i > Len(meetings) THEN meetings
    ELSE IF Strip(Lower(user_query)) = Strip(Lower(meetings[i].title)) THEN <<meetings[i]>>
    ELSE ExactTitle(meetings, i + 1, user_query)

RECURSIVE KeywordScore(_, _)
KeywordScore(keywords, meeting) ==
    IF keywords = <<>> THEN 0
    ELSE LET k == Lower(keywords[1])
         IN  (IF Contains(LowerOrEmpty(meeting.title), k) THEN 10 ELSE 0)
             + (IF Contains(LowerOrEmpty(meeting.summary), k) THEN 5 ELSE 0)
             + (IF Contains(LowerOrEmpty(meeting.description), k) THEN 3 ELSE 0)
             + KeywordScore(Tail(keywords), meeting)

\* Each row gets its keyword_score; the rows sorted by it, highest first
ByKeywordScore(meetings, keywords) ==
    LET scored == <<>> \o [i \in 1..Len(meetings) |->
                      [keyword_score |-> KeywordScore(keywords, meetings[i])] @@ meetings[i]]
    IN  SortedByKey([i \in 1..Len(scored) |-> << <<0 - scored[i].keyword_score>>, scored[i]>>])

\* re.sub('회의|미팅', '', text).strip()
remove_meeting_word(text) ==
    Strip(RemoveAny(text, <<W_hoeui, W_miting>>))

TitleRatio(user_query, meeting) ==
    Ratio(remove_meeting_word(Strip(Lower(user_query))),
          remove_meeting_word(Strip(Lower(meeting.title))))

\* best - second >= 0.2 decided on the exact ratios: "yes", "no", or "edge"
\* when the difference is exactly one fifth, where the rounding of the
\* floating-point subtraction decides
RatioLead(best, second) ==
    LET lhs == 5 * (best[1] * second[2] - second[1] * best[2])
        rhs == best[2] * second[2]
    IN  IF lhs > rhs THEN "yes" ELSE IF lhs = rhs THEN "edge" ELSE "no"

\* The outcomes of the similarity rule on more than one scored row: the
\* rows unchanged, or the one best match
SimilarityOutcomes(meetings, user_query) ==
    LET n == Len(meetings)
        ratios == {<<i, TitleRatio(user_query, meetings[i])>> : i \in 1..n}
        best == CHOOSE x \in ratios :
                   /\ \A y \in ratios : ~RatioGreater(y[2], x[2])
                   /\ \A y \in ratios : y[1] < x[1] => RatioGreater(x[2], y[2])
        second == CHOOSE y \in ratios \ {best} :
                   \A z \in ratios \ {best} : ~RatioGreater(z[2], y[2])
        lead == RatioLead(best[2], second[2])
    IN  IF ~RatioAtLeast(best[2], 7, 10) \/ lead = "no"
        THEN {meetings}
        ELSE IF lead = "yes" THEN {<<meetings[best[1]]>>}
        ELSE {meetings, <<meetings[best[1]]>>}

\* What the primary rows become before the answer is chosen
PrimaryOutcomes(fetched, l) ==
    LET meetings == IF Len(fetched) > 1 THEN ExactTitle(fetched, 1, args.user_query) ELSE fetched
    IN  IF l.keywords # <<>> /\ Len(meetings) > 1
        THEN SimilarityOutcomes(ByKeywordScore(meetings, l.keywords), args.user_query)
        ELSE {PersonaSorted(meetings)}

\* A variant of the ladder that enters rung 2 without asking for a date window
NextRung_NoDateTest(after, l) ==
    IF after = "primary" /\ Truthy(l.status) THEN "smd_rung1"
    ELSE IF after \in {"primary", "rung1"} THEN "smd_rung2_vocab"
    ELSE "smd_final"

\* Where the ladder goes after a stage that found nothing
NextRung(after, l) ==
    IF after = "primary" /\ Truthy(l.status) THEN "smd_rung1"
    ELSE IF after \in {"primary", "rung1"} /\ HasStart(l.date_info) THEN "smd_rung2_vocab"
    ELSE "smd_final"

\* The primary query and what is made of its rows
SmdRung0 ==
    /\ pc = "smd_rung0"
    /\ \E fails \in BOOLEAN :
          IF fails THEN CaughtWith(StoreFailure(hist, "primary"))
          ELSE LET q == PrimaryQuery(loc, args.selected_meeting_id, RequestNow)
               IN  \E meetings \in PrimaryOutcomes(FetchMeetings(store, q), loc) :
                      /\ loc' = [loc EXCEPT !.meetings = meetings]
                      /\ hist' = [StoreCall(hist) EXCEPT !.rungs = Append(@, "primary"),
                                                         !.queries = Append(@, q)]
                      /\ pc' = IF meetings = <<>> THEN NextRung("primary", loc) ELSE "smd_format"
    /\ store' = StoreAfterDecoration(store, loc'.meetings)
    /\ UNCHANGED <<parseVars, keywordVars, rankVars, mergeVars, enable_persona, entry, args, open, result>>

\* Rung 1: the query without the state
Rung1Query(l) ==
    [MeetingQuery(SelectMeetingRows) EXCEPT
        !.p_name = l.user_name,
        !.keywords = l.keywords, !.kw_op = "OR",
        !.start = IF HasStart(l.date_info) THEN l.date_info.start_date ELSE NoDt,
        !.end = IF HasEnd(l.date_info) THEN l.date_info.end_date ELSE NoDt,
        !.group_by = TRUE, !.order_by = TRUE, !.limit = 50]

W_other == <<45796, 47480>> (* 다른 *)

\* The message of a rung 1 success
Rung1Message(rows, status, user_job, persona_on) ==
    IF Len(rows) = 1
    THEN Msg("other_state_single", status_kr(status), {status_kr(rows[1].status)},
             FormatSingle(rows[1], user_job, persona_on))
    ELSE LET statuses == {rows[i].status : i \in 1..Len(rows)} \ {status}
         IN  Msg("other_state_multiple", status_kr(status),
                 IF statuses = {} THEN {W_other} ELSE {status_kr(s) : s \in statuses},
                 FormatMultiple(Take(rows, 5)))

SmdRung1 ==
    /\ pc = "smd_rung1"
    /\ \E fails \in BOOLEAN :
          IF fails THEN CaughtWith(StoreFailure(hist, "rung1"))
          ELSE LET q == Rung1Query(loc)
                   rows == FetchMeetings(store, q)
               IN  /\ hist' = [StoreCall(hist) EXCEPT !.rungs = Append(@, "rung1"),
                                                      !.queries = Append(@, q),
                                                      !.fallback_rows = rows]
                   /\ IF rows # <<>>
                      THEN ReturnWith(loc, Rung1Message(rows, loc.status, args.user_job, enable_persona), rows)
                      ELSE /\ pc' = NextRung("rung1", loc)
                           /\ UNCHANGED loc
    /\ UNCHANGED <<parseVars, keywordVars, rankVars, mergeVars, store, enable_persona, entry, args, open, result>>


\* SELECT DISTINCT title FROM meeting [WHERE host_user_id = %s], and the
\* words of the titles
TitleWords(st, user_id) ==
    LET titles == {m.title : m \in {x \in st.meeting : user_id # 0 => x.host_user_id = user_id}}
    IN  UNION {Range(FindRuns(t, 1, HangulChars, 1)) : t \in titles}

\* The words the correction loop may end with for one keyword: a word of the
\* best ratio (at least 0.7) -- which one of several is decided by the
\* iteration order of a set -- or the keyword itself
Corrections(keyword, words) ==
    LET ratios == {<<w, Ratio(keyword, w)>> : w \in words}
        close == {x \in ratios : RatioAtLeast(x[2], 7, 10) /\ x[2][1] > 0}
        best == {x[1] : x \in {y \in close : \A z \in close : ~RatioGreater(z[2], y[2])}}
    IN  IF best = {} THEN {keyword} ELSE best

RECURSIVE CorrectedKeywords(_, _)
CorrectedKeywords(keywords, words) ==
    IF keywords = <<>> THEN {<<>>}
    ELSE {<<w>> \o rest : w \in Corrections(keywords[1], words),
                          rest \in CorrectedKeywords(Tail(keywords), words)}

filler_words == { <<51080, 50612>> (* 있어 *), <<50630, 50612>> (* 없어 *), <<47952>> (* 뭐 *), <<44144>> (* 거 *), <<44163>> (* 것 *), <<54924, 51032>> (* 회의 *) }
date_unit_words == { <<51068>> (* 일 *), <<50900>> (* 월 *), <<51452>> (* 주 *), <<45380>> (* 년 *) }

IsMeaningful(k) == k \notin filler_words /\ ~ContainsAny(k, date_unit_words)

\* Rung 2, first half: the title vocabulary is read once per keyword and the
\* keywords corrected against it
SmdRung2Vocab ==
    /\ pc = "smd_rung2_vocab"
    /\ \E fails \in {FALSE} \cup {loc.keywords # <<>>} :
          IF fails THEN CaughtWith(StoreFailure(hist, "titles"))
          ELSE \E corrected \in CorrectedKeywords(loc.keywords, TitleWords(store, args.user_id)) :
                  LET meaningful == SelectSeq(corrected, IsMeaningful)
                  IN  /\ loc' = [loc EXCEPT !.meaningful = meaningful]
                      /\ hist' = [hist EXCEPT !.calls = @ + Len(loc.keywords),
                                              !.rungs = Append(@, "rung2")]
                      /\ pc' = IF meaningful # <<>> THEN "smd_rung2" ELSE "smd_final"
    /\ UNCHANGED <<parseVars, keywordVars, rankVars, mergeVars, store, enable_persona, entry, args, open, result>>

\* Rung 2: the query without the dates
Rung2Query(l) ==
    [MeetingQuery(SelectMeetingRows) EXCEPT
        !.p_name = l.user_name,
        !.keywords = l.meaningful, !.kw_op = "OR",
        !.status = IF Truthy(l.status) THEN l.status ELSE Null,
        !.group_by = TRUE, !.order_by = TRUE, !.limit = 50]

\* Rung 2, second half.  The formatters are total, so the handler around
\* the message construction is never entered.
SmdRung2 ==
    /\ pc = "smd_rung2"
    /\ \E fails \in BOOLEAN :
          IF fails THEN CaughtWith(StoreFailure(hist, "rung2"))
          ELSE LET q == Rung2Query(loc)
                   rows == PersonaSorted(FetchMeetings(store, q))
               IN  /\ hist' = [StoreCall(hist) EXCEPT !.queries = Append(@, q),
                                                      !.fallback_rows = rows]
                   /\ IF rows # <<>>
                      THEN ReturnWith([loc EXCEPT !.meetings = rows],
                                      Msg("other_date", IF Truthy(loc.status) THEN status_kr(loc.status) ELSE Null,
                                          {}, FormatMultiple(Take(rows, 5))),
                                      rows)
                      ELSE /\ pc' = NextRung("rung2", loc)
                           /\ UNCHANGED loc
    /\ store' = StoreAfterDecoration(store, loc'.pending.records)
    /\ UNCHANGED <<parseVars, keywordVars, rankVars, mergeVars, enable_persona, entry, args, open, result>>

\* The message of the final failure
FinalMessage(l) ==
    IF HasOriginal(l.date_info) /\ l.keywords = <<>>
    THEN IF Truthy(l.status) THEN Msg("none_on_date_in_state", status_kr(l.status), {}, NoDetail)
         ELSE Plain("none_on_date")
    ELSE IF l.keywords # <<>>
    THEN IF SelectSeq(l.keywords, IsMeaningful) = <<>>
         THEN IF HasOriginal(l.date_info) THEN Plain("none_on_date") ELSE Plain("none_matching")
         ELSE IF HasOriginal(l.date_info) THEN Plain("none_on_date_for_keywords")
         ELSE Plain("none_for_keywords")
    ELSE IF Truthy(l.status) THEN Msg("none_in_state", status_kr(l.status), {}, NoDetail)
    ELSE Plain("not_found")

SmdFinal ==
    /\ pc = "smd_final"
    /\ ReturnWith(loc, FinalMessage(loc), <<>>)
    /\ UNCHANGED <<parseVars, keywordVars, rankVars, mergeVars, store, enable_persona, entry, args, open, result, hist>>

\* The answer for the rows of the primary query
SmdFormat ==
    /\ pc = "smd_format"
    /\ IF Len(loc.meetings) = 1
       THEN ReturnWith(loc, Msg("detail", Null, {},
                                FormatSingle(loc.meetings[1], args.user_job, enable_persona)),
                       loc.meetings)
       ELSE ReturnWith(loc, Msg("list", Null, {}, FormatMultiple(loc.meetings)), loc.meetings)
    /\ UNCHANGED <<parseVars, keywordVars, rankVars, mergeVars, store, enable_persona, entry, args, open, result, hist>>

\* The with block of the main connection ends and the entry point returns
SmdExit ==
    /\ pc = "smd_exit"
    /\ open' = WithExit(open)
    /\ hist' = Release(hist)
    /\ result' = Returned(loc.pending.message, loc.pending.records)
    /\ pc' = "done"
    /\ UNCHANGED <<parseVars, keywordVars, rankVars, mergeVars, store, enable_persona, entry, args, loc>>


(***************************************************************************)
(* search_meeting_count(keywords, date_info, status, user_job, user_name)  *)
(* and format_count_result(result, user_query).  The frame of the call is  *)
(* loc.c; c.ret is where control goes when the function returns.           *)
(***************************************************************************)
DetailColumns == <<115, 99, 104, 101, 100, 117, 108, 101, 100, 95, 97, 116, 44, 32, 116, 105, 116, 108, 101, 44, 32, 100, 101, 115, 99, 114, 105, 112, 116, 105, 111, 110, 44, 32, 115, 117, 109, 109, 97, 114, 121, 44, 32, 105, 100, 44, 32, 115, 116, 97, 116, 117, 115, 44, 32, 104, 111, 115, 116, 95, 117, 115, 101, 114, 95, 105, 100>> (* scheduled_at, title, description, summary, id, status, host_user_id *)
CountStar == <<67, 79, 85, 78, 84, 40, 42, 41, 32, 97, 115, 32, 99, 111, 117, 110, 116>> (* COUNT( * ) as count *)

\* The COUNT statement
CountQuery(c, now) ==
    LET user_specified_date == IsDict(c.date_info) /\ c.date_info.type # "None"
    IN  [MeetingQuery(SelectCount) EXCEPT
            !.p_name = c.user_name,
            !.keywords = c.keywords, !.kw_op = "OR",
            !.start = IF HasStart(c.date_info) THEN c.date_info.start_date ELSE NoDt,
            !.end = IF HasEnd(c.date_info) THEN c.date_info.end_date ELSE NoDt,
            !.status = IF Truthy(c.status) THEN c.status ELSE Null,
            !.not_before = IF c.status = SCHEDULED /\ ~user_specified_date
                           THEN TodayStart(now) ELSE NoDt,
            !.before = IF c.status = COMPLETED /\ ~user_specified_date
                       THEN TodayStart(now) ELSE NoDt]

\* date_query = query.replace("COUNT(*) as count", "...") + " ORDER BY scheduled_at DESC"
DateQuery(q) ==
    [q EXCEPT !.select = Replace(q.select, CountStar, DetailColumns), !.order_by = TRUE]

\* The function returns value v ("none" or "dict") through the handler
CountCaught(h) ==
    /\ loc' = [loc EXCEPT !.c.value = "none"]
    /\ hist' = h
    /\ pc' = "smc_exit"

\* `with get_db_connection() as conn:` and `if not conn: return None`
SmcEnter ==
    /\ pc = "smc_enter"
    /\ \E connected \in BOOLEAN :
          IF connected
          THEN /\ open' = WithEnter(open, "conn")
               /\ hist' = Acquire(hist, open')
               /\ pc' = "smc_count"
               /\ UNCHANGED loc
          ELSE /\ loc' = [loc EXCEPT !.c.value = "none"]
               /\ pc' = loc.c.ret
               /\ hist' = NotConnected(hist)
               /\ UNCHANGED open
    /\ UNCHANGED <<parseVars, keywordVars, rankVars, mergeVars, store, enable_persona, entry, args, result>>

\* The COUNT statement is built and executed.  date_info.get('end_date') is
\* evaluated without the test for None.
SmcCount ==
    /\ pc = "smc_count"
    /\ IF ~IsDict(loc.c.date_info)
       THEN CountCaught(hist)
       ELSE \E fails \in BOOLEAN :
               IF fails THEN CountCaught(StoreFailure(hist, "count"))
               ELSE LET q == CountQuery(loc.c, RequestNow)
                    IN  /\ loc' = [loc EXCEPT !.c.query = q,
                                              !.c.count = FetchMeetings(store, q)[1].count]
                        /\ hist' = StoreCall(hist)
                        /\ pc' = "smc_detail"
    /\ UNCHANGED <<parseVars, keywordVars, rankVars, mergeVars, store, enable_persona, entry, args, open, result>>

\* The second statement: an aggregate with an ORDER BY on a plain column,
\* which the server either rejects or answers with its one row
SmcDetail ==
    /\ pc = "smc_detail"
    /\ \E outcome \in IF IsAggregate(DateQuery(loc.c.query).select)
                      THEN {"failed", "rejected", "rows"} ELSE {"failed", "rows"} :
          IF outcome = "failed" THEN CountCaught(StoreFailure(hist, "dates"))
          ELSE IF outcome = "rejected" THEN CountCaught(StoreCall(hist))
          ELSE LET rows == FetchMeetings(store, DateQuery(loc.c.query))
                   meetings == IF enable_persona /\ Truthy(loc.c.user_job) /\ Len(rows) > 1
                                  /\ loc.c.keywords = <<>>
                               THEN search_with_persona(rows, loc.c.user_job, RequestNow).final_sorted
                               ELSE rows
               IN  /\ loc' = [loc EXCEPT !.c.meetings = meetings, !.c.value = "dict"]
                   /\ hist' = StoreCall(hist)
                   /\ pc' = "smc_exit"
    /\ store' = StoreAfterDecoration(store, loc'.c.meetings)
    /\ UNCHANGED <<parseVars, keywordVars, rankVars, mergeVars, enable_persona, entry, args, open, result>>

\* The with block ends and the function returns to its caller
SmcExit ==
    /\ pc = "smc_exit"
    /\ open' = WithExit(open)
    /\ hist' = Release(hist)
    /\ pc' = loc.c.ret
    /\ UNCHANGED <<parseVars, keywordVars, rankVars, mergeVars, store, enable_persona, entry, args, loc, result>>

\* format_count_result(result, user_query)
format_count_result(c) ==
    IF c.count = 0 THEN [message |-> Plain("count_none"), records |-> <<>>]
    ELSE [message |-> Msg("count", Null, {}, Detail("dates", <<>>)), records |-> c.meetings]

\* search_meetings_direct gets the count back
SmdCountReturn ==
    /\ pc = "smd_count_return"
    /\ IF loc.c.value = "dict"
       THEN ReturnWith(loc, format_count_result(loc.c).message, format_count_result(loc.c).records)
       ELSE ReturnWith(loc, Plain("count_failed"), <<>>)
    /\ UNCHANGED <<parseVars, keywordVars, rankVars, mergeVars, store, enable_persona, entry, args, open, result, hist>>

CountKeywords == { <<>>, << <<46356, 51088, 51064>> (* 디자인 *) >> }
CountDateInfos == {NoneDateInfo} \cup {DateTable[q] : q \in CountDateTexts}

\* The caller invokes search_meeting_count
CallSearchMeetingCount ==
    /\ pc = "idle"
    /\ \E k \in CountKeywords, d \in CountDateInfos, s \in StatusInputs,
          who \in {r \in Requesters : r.selected_meeting_id = 0 /\ r.user_id # 9},
          name \in {Null, N_kim} :
          /\ args' = [NoArgs EXCEPT !.keywords = k, !.date_info = d, !.status = s,
                                    !.user_job = who.user_job, !.user_name = name]
          /\ loc' = [NoLoc EXCEPT !.c = [NoCount EXCEPT !.keywords = k, !.date_info = d,
                                            !.status = s, !.user_job = who.user_job,
                                            !.user_name = name, !.ret = "smc_return"]]
    /\ pc' = "smc_enter"
    /\ entry' = "search_meeting_count"
    /\ hist' = NoHist
    /\ result' = NoResult
    /\ UNCHANGED <<parseVars, keywordVars, rankVars, mergeVars, store, enable_persona, open>>

\* The caller gets None or {'count': ..., 'meetings': ...}
SmcReturn ==
    /\ pc = "smc_return"
    /\ result' = IF loc.c.value = "dict"
                 THEN [outcome |-> "returned", message |-> Plain("count_object"),
                       records |-> loc.c.meetings, count |-> loc.c.count]
                 ELSE [outcome |-> "returned", message |-> Plain("none_object"),
                       records |-> <<>>, count |-> -1]
    /\ pc' = "done"
    /\ UNCHANGED <<parseVars, keywordVars, rankVars, mergeVars, store, enable_persona, entry, args, loc, open, hist>>

\* The caller takes the result; the engine is idle again
Finish ==
    /\ pc = "done"
    /\ pc' = "idle"
    /\ entry' = "none"
    /\ args' = NoArgs
    /\ loc' = NoLoc
    /\ hist' = NoHist
    /\ result' = NoResult
    /\ UNCHANGED <<parseVars, keywordVars, rankVars, mergeVars, store, enable_persona, open>>


(***************************************************************************)
(* search_tasks(user_query, user_id, meeting_id, user_name),               *)
(* fetch_action_items and merge_tasks_and_actions.  The frame of the call  *)
(* is loc.t.                                                               *)
(***************************************************************************)
WordChars == HangulChars \cup AlnumChars \cup {95}
IsWordOrSpace(c) == c \in WordChars \cup SpaceChars
IsHangul(c) == c \in HangulChars

pronoun_tokens == { <<51200>> (* 저 *), <<44536>> (* 그 *), <<51060>> (* 이 *), <<54644, 45817>> (* 해당 *) }
josa_suffixes == << <<50640, 49436>> (* 에서 *), <<50640, 44172>> (* 에게 *), <<54620, 53580>> (* 한테 *), <<48512, 53552>> (* 부터 *), <<44620, 51648>> (* 까지 *) >>

\* A demonstrative followed by a token at least 0.5 similar to 회의, or one
\* of 거기, 여기 anywhere in the query
has_meeting_pronoun(query) ==
    LET tokens == Split(SelectSeq(query, IsWordOrSpace))
    IN  \/ \E i \in 1..(Len(tokens) - 1) :
              /\ tokens[i] \in pronoun_tokens
              /\ RatioAtLeast(Ratio(SelectSeq(RemoveAny(tokens[i + 1], josa_suffixes), IsHangul),
                                    W_hoeui), 1, 2)
        \/ ContainsAny(query, { <<44144, 44592>> (* 거기 *), <<50668, 44592>> (* 여기 *) })

global_words == { <<51204, 52404>> (* 전체 *), <<47784, 46304>> (* 모든 *), <<51204, 48512>> (* 전부 *), <<45796, 47480>> (* 다른 *), <<47568, 44256>> (* 말고 *) }
back_references == { <<51200, 32, 54924, 51032>> (* 저 회의 *), <<44536, 32, 54924, 51032>> (* 그 회의 *), <<51060, 32, 54924, 51032>> (* 이 회의 *), <<44144, 44592>> (* 거기 *) }
done_words == { <<50756, 47308>> (* 완료 *), <<45149, 45212>> (* 끝난 *), <<50756, 47308, 54620>> (* 완료한 *) }
todo_words == { <<48120, 50756, 47308>> (* 미완료 *), <<45224, 51008>> (* 남은 *), <<54644, 50556>> (* 해야 *), <<54624>> (* 할 *) }
completed_patterns == { <<51060, 48120>> (* 이미 *), <<50756, 47308>> (* 완료 *), <<45149, 45212>> (* 끝난 *), <<45796, 32, 54620>> (* 다 한 *), <<54620, 32, 44144>> (* 한 거 *), <<54620, 32, 44163>> (* 한 것 *) }
everything_words == { <<51204, 52404>> (* 전체 *), <<47784, 46304>> (* 모든 *), <<51204, 48512>> (* 전부 *) }
my_task_keywords ==
    { <<45236, 44032>> (* 내가 *), <<45208, 51032>> (* 나의 *), <<45236, 32, 54624, 51068>> (* 내 할일 *), <<45236, 32, 54624, 32, 51068>> (* 내 할 일 *), <<45208, 45716, 63>> (* 나는? *), <<45208, 45716>> (* 나는 *), <<45236, 44732, 45716, 63>> (* 내꺼는? *), <<45236, 44732, 45716>> (* 내꺼는 *), <<45236, 44032, 63>> (* 내가? *),
      <<54644, 50556, 32, 46112>> (* 해야 될 *), <<54644, 50556, 46112>> (* 해야될 *), <<54644, 50556, 32, 46104, 45716>> (* 해야 되는 *), <<54644, 50556, 46104, 45716>> (* 해야되는 *), <<45224, 51008>> (* 남은 *), <<48120, 50756, 47308>> (* 미완료 *), <<54624, 51068>> (* 할일 *), <<54624, 32, 51068>> (* 할 일 *),
      <<47952, 50556>> (* 뭐야 *), <<47952, 51080>> (* 뭐있 *), <<47952, 32, 51080>> (* 뭐 있 *) }
correction_words == { <<54624, 51068>> (* 할일 *), <<54624, 32, 51068>> (* 할 일 *), <<116, 97, 115, 107>> (* task *) }
other_people_patterns == { <<45796, 47480, 32, 49324, 46988>> (* 다른 사람 *), <<45796, 47480, 49324, 46988>> (* 다른사람 *), <<45796, 47480, 32, 45812, 45817>> (* 다른 담당 *), <<45796, 47480, 45812, 45817>> (* 다른담당 *) }
in_meeting_patterns == { <<45796, 47480, 32, 49324, 46988>> (* 다른 사람 *), <<45796, 47480, 49324, 46988>> (* 다른사람 *), <<50500, 47924, 46020>> (* 아무도 *), <<51204, 52404>> (* 전체 *), <<47784, 46160>> (* 모두 *) }
suspect_patterns ==
    { <<45796, 47480>> (* 다른 *), <<45796, 47492>> (* 다름 *), <<46388>> (* 딴 *), <<49324, 46988>> (* 사람 *), <<45812, 45817>> (* 담당 *), <<54016, 50896>> (* 팀원 *), <<47716, 48260>> (* 멤버 *), <<45572, 44032>> (* 누가 *), <<50500, 47924>> (* 아무 *), <<47784, 46160>> (* 모두 *), <<51204, 52404>> (* 전체 *),
      <<45208, 47672, 51648>> (* 나머지 *), <<45572, 44396>> (* 누구 *), <<44536, 50808>> (* 그외 *), <<44536, 32, 50808>> (* 그 외 *), <<45796, 47480, 51060>> (* 다른이 *), <<45796, 47480, 32, 51060>> (* 다른 이 *), <<45796, 47480, 50528>> (* 다른애 *), <<45796, 47480, 32, 50528>> (* 다른 애 *) }
W_done_text == <<50756, 47308, 54620>> (* 완료한 *)
W_todo_text == <<54644, 50556, 32, 54624>> (* 해야 할 *)
W_unassigned == <<48120, 51648, 51221>> (* 미지정 *)

\* The names of the users other than user_id, in the order of their ids
RECURSIVE NamesById(_)
NamesById(users) ==
    IF users = {} THEN <<>>
    ELSE LET u == CHOOSE x \in users : \A y \in users : x.id <= y.id
         IN  <<u.name>> \o NamesById(users \ {u})

\* The first of names that occurs in the query, or None
RECURSIVE FirstNameIn(_, _)
FirstNameIn(names, query) ==
    IF names = <<>> THEN Null
    ELSE IF Contains(query, names[1]) THEN names[1]
    ELSE FirstNameIn(Tail(names), query)

\* A variant of the name loop that keeps the meeting of the context whatever
\* the query says
ContextMeeting_AlwaysKept(meeting_id, found_name, has_meeting_reference) == meeting_id

\* The loop over other_names: a name of another user without a reference to
\* a meeting sets meeting_id = None, with a reference meeting_id is kept
ContextMeeting(meeting_id, found_name, has_meeting_reference) ==
    IF found_name # Null /\ ~has_meeting_reference THEN 0 ELSE meeting_id

\* The tests of the branches, each as the source writes it
IsCompletedQuery(ql) == ContainsAny(ql, completed_patterns)

IsMyTaskQuery(ql) ==
    \/ ContainsAny(ql, my_task_keywords)
    \/ (StartsWith(ql, <<50500, 45768>> (* 아니 *)) /\ ContainsAny(ql, correction_words))

IsOthersQuery(ql) ==
    \/ ContainsAny(ql, other_people_patterns)
    \/ (Contains(ql, <<54924, 51032, 50640, 49436>> (* 회의에서 *)) /\ ContainsAny(ql, in_meeting_patterns))

IsMeetingOnly(meeting_id, found_name) == meeting_id # 0 /\ found_name = Null

\* A variant of the chain that tests the 'other people' phrasing before the
\* 'my tasks' phrasing
TaskBranch_OthersFirst(ql, meeting_id, found_name) ==
    IF IsCompletedQuery(ql) THEN "completed"
    ELSE IF IsOthersQuery(ql) THEN "others"
    ELSE IF IsMyTaskQuery(ql) THEN "mine"
    ELSE IF IsMeetingOnly(meeting_id, found_name) THEN "meeting"
    ELSE "assignee"

\* Which branch answers the query: `if` completed (it returns), then the
\* chain `if` mine `elif` others `elif` meeting only `else` named assignee
TaskBranch(ql, meeting_id, found_name) ==
    IF IsCompletedQuery(ql) THEN "completed"
    ELSE IF IsMyTaskQuery(ql) THEN "mine"
    ELSE IF IsOthersQuery(ql) THEN "others"
    ELSE IF IsMeetingOnly(meeting_id, found_name) THEN "meeting"
    ELSE "assignee"

\* The state a task must have: the status filter of the query
TaskStatus(ql, branch) ==
    IF branch = "completed" \/ ContainsAny(ql, done_words) THEN COMPLETED ELSE TODO

status_text(ql, branch) ==
    IF branch = "completed" \/ ContainsAny(ql, done_words) THEN W_done_text
    ELSE IF ContainsAny(ql, todo_words) THEN W_todo_text
    ELSE <<>>

\* The statement of a branch; order "none" when the branch answers without one
BranchQuery(branch, ql, user_id, meeting_id, found_name, status) ==
    LET base == [TaskQuery EXCEPT !.status = status]
    IN  IF branch = "completed"
        THEN [base EXCEPT !.user_id = user_id, !.order = "updated",
                          !.meeting_id = IF ~ContainsAny(ql, everything_words) THEN meeting_id ELSE 0]
        ELSE IF branch = "mine"
        THEN IF meeting_id # 0 /\ ~ContainsAny(ql, everything_words \cup { <<45796>> (* 다 *) })
             THEN [base EXCEPT !.user_id = user_id, !.meeting_id = meeting_id]
             ELSE [base EXCEPT !.user_id = user_id, !.from_today = TRUE]
        ELSE IF branch = "others"
        THEN IF meeting_id # 0
             THEN [base EXCEPT !.meeting_id = meeting_id, !.not_user_id = user_id]
             ELSE [base EXCEPT !.order = "none"]
        ELSE IF branch = "meeting"
        THEN IF ContainsAny(ql, suspect_patterns)
             THEN [base EXCEPT !.meeting_id = meeting_id, !.not_user_id = user_id]
             ELSE [base EXCEPT !.meeting_id = meeting_id]
        ELSE IF found_name = Null THEN [base EXCEPT !.order = "none"]
        ELSE LET has_global_intent ==
                     \/ ContainsAny(ql, everything_words \cup { <<51204, 52404, 50640, 49436>> (* 전체에서 *), <<51204, 52404, 51201>> (* 전체적 *) })
                     \/ (Contains(ql, <<45796, 47480>> (* 다른 *)) /\ ContainsAny(ql, { <<54924, 51032>> (* 회의 *), <<51068>> (* 일 *), <<54624, 51068>> (* 할일 *), <<44163>> (* 것 *) }))
             IN  [base EXCEPT !.assignee_like = found_name,
                              !.meeting_id = IF ~has_global_intent THEN meeting_id ELSE 0]

TitleOfMeeting(st, id) ==
    IF \E m \in st.meeting : m.id = id
    THEN (CHOOSE m \in st.meeting : m.id = id).title ELSE Null

\* The ORDER BY of a task statement as a sort key.  A NULL due date is not
\* before CURDATE() and sorts first among its group.
TaskOrderKey(t, q, now) ==
    IF q.order = "updated"
    THEN [i \in 1..7 |-> 0 - DtKey(t.updated_at)[i]] \o <<t.id>>
    ELSE <<IF t.due_date # NoDt /\ DtLT(t.due_date, TodayStart(now)) THEN 0 ELSE 1>>
            \o DtKey(t.due_date) \o <<t.id>>

TaskMatches(t, q, now) ==
    /\ q.user_id # 0 => t.user_id = q.user_id
    /\ q.not_user_id # 0 => t.user_id # q.not_user_id
    /\ q.meeting_id # 0 => t.meeting_id = q.meeting_id
    /\ q.status # Null => t.status = q.status
    /\ q.from_today => t.due_date # NoDt /\ DtLE(TodayStart(now), t.due_date)
    /\ q.assignee_like # Null => Like(t.assignee_name, q.assignee_like)

\* cursor.execute(q); cursor.fetchall()
FetchTasks(st, q, now) ==
    LET rows == SeqOfRows({t \in st.task : TaskMatches(t, q, now)})
        keyed == [i \in 1..Len(rows) |->
                    <<TaskOrderKey(rows[i], q, now),
                      [meeting_title |-> TitleOfMeeting(st, rows[i].meeting_id)] @@ rows[i]>>]
    IN  Take(SortedByKey(keyed), 10)


\* The rows of fetch_action_items' statement: ai.task as title, the
\* assignee's name or 미지정, the state from is_completed, the meeting
ActionItemRows(st, meeting_id, user_id, status) ==
    LET MeetingOf(ai) ==
            LET mrs == {r \in st.meeting_result : r.id = ai.meeting_result_id}
                ms == {m \in st.meeting : \E r \in mrs : r.meeting_id = m.id}
            IN  ms
        chosen == {ai \in st.action_item :
                      /\ \E m \in MeetingOf(ai) :
                            IF meeting_id # 0 THEN m.id = meeting_id ELSE m.host_user_id = user_id
                      /\ ai.is_completed = (IF status = COMPLETED THEN 1 ELSE 0)}
        Row(ai) ==
            LET m == CHOOSE m \in MeetingOf(ai) : TRUE
            IN  [ id |-> ai.id, title |-> ai.task, description |-> ai.task,
                  assignee_name |-> IF \E u \in st.user : u.id = ai.assignee_user_id
                                    THEN (CHOOSE u \in st.user : u.id = ai.assignee_user_id).name
                                    ELSE W_unassigned,
                  due_date |-> ai.due_date,
                  status |-> IF ai.is_completed = 1 THEN COMPLETED ELSE TODO,
                  source |-> ai.source, meeting_id |-> m.id, meeting_title |-> m.title,
                  source_table |-> "action_item" ]
        rows == SeqOfRows(chosen)
    IN  Take(SortedByKey([i \in 1..Len(rows) |->
                            <<DtKey(rows[i].due_date) \o <<rows[i].id>>, Row(rows[i])>>]), 20)

\* sort_key(item): (0, str(due)) when the row has a due date, else (1, '');
\* tuples and texts compare element by element, a prefix first
sort_key(item) ==
    IF item.due_date # NoDt THEN <<0>> \o DatetimeStr(item.due_date) ELSE <<1>>

\* A variant of the merge that returns the whole sorted list
merge_tasks_and_actions_Uncut(tasks, action_items) ==
    LET labelled == [i \in 1..Len(tasks) |-> [source_table |-> "task"] @@ tasks[i]]
        combined == labelled \o action_items
    IN  SortedByKey([i \in 1..Len(combined) |-> <<sort_key(combined[i]), combined[i]>>])

\* merge_tasks_and_actions(tasks, action_items): each task labelled, the two
\* lists joined, sorted in place by sort_key (a stable sort), the first 30
merge_tasks_and_actions(tasks, action_items) ==
    LET labelled == [i \in 1..Len(tasks) |-> [source_table |-> "task"] @@ tasks[i]]
        combined == labelled \o action_items
    IN  Take(SortedByKey([i \in 1..Len(combined) |-> <<sort_key(combined[i]), combined[i]>>]), 30)

TaskQueryCatalog ==
    { <<45236, 44032, 32, 54644, 50556, 32, 54624, 32, 51068>> (* 내가 해야 할 일 *), <<45236, 32, 54624, 32, 51068, 32, 50508, 47140, 51480>> (* 내 할 일 알려줘 *), <<50756, 47308, 54620, 32, 51068, 32, 48372, 50668, 51480>> (* 완료한 일 보여줘 *), <<45796, 47480, 32, 49324, 46988, 32, 54624, 32, 51068, 51008, 63>> (* 다른 사람 할 일은? *), <<51060, 50689, 55148, 32, 50629, 47924>> (* 이영희 업무 *),
      <<44536, 32, 54924, 51032, 32, 51060, 50689, 55148, 32, 50629, 47924>> (* 그 회의 이영희 업무 *), <<54924, 51032, 32, 50629, 47924, 32, 51221, 47532>> (* 회의 업무 정리 *) }

\* An exception inside the try block of search_tasks
TaskCaught(h) ==
    /\ loc' = [loc EXCEPT !.pending = [message |-> Plain("task_search_error"), records |-> <<>>]]
    /\ hist' = h
    /\ pc' = "st_exit"

TaskReturn(l, message, records) ==
    /\ loc' = [l EXCEPT !.pending = [message |-> message, records |-> records]]
    /\ pc' = "st_exit"

\* The caller invokes search_tasks
CallSearchTasks ==
    /\ pc = "idle"
    /\ \E q \in TaskQueryCatalog, user_id \in {1, 2}, meeting_id \in {0, 1, 2} :
          /\ args' = [NoArgs EXCEPT !.user_query = q, !.user_id = user_id,
                                    !.meeting_id = meeting_id,
                                    !.user_name = IF user_id = 1 THEN N_kim ELSE Null]
          /\ loc' = [NoLoc EXCEPT !.t.meeting_id = meeting_id]
    /\ pc' = "st_enter"
    /\ entry' = "search_tasks"
    /\ hist' = NoHist
    /\ result' = NoResult
    /\ UNCHANGED <<parseVars, keywordVars, rankVars, mergeVars, store, enable_persona, open>>

\* `with get_db_connection() as conn:` and `if not conn: return ...`
StEnter ==
    /\ pc = "st_enter"
    /\ \E connected \in BOOLEAN :
          IF connected
          THEN /\ open' = WithEnter(open, "conn")
               /\ hist' = Acquire(hist, open')
               /\ pc' = "st_users"
               /\ UNCHANGED result
          ELSE /\ result' = Returned(Plain("connection_failed"), <<>>)
               /\ pc' = "done"
               /\ hist' = NotConnected(hist)
               /\ UNCHANGED open
    /\ UNCHANGED <<parseVars, keywordVars, rankVars, mergeVars, store, enable_persona, entry, args, loc>>

\* The two user statements, then the choice of the branch and its statement
StUsers ==
    /\ pc = "st_users"
    /\ \E fails \in BOOLEAN :
          IF fails THEN TaskCaught(StoreFailure(hist, "users"))
          ELSE LET ql == Lower(args.user_query)
                   other_names == NamesById({u \in store.user : u.id # args.user_id})
                   found_name == FirstNameIn(other_names, args.user_query)
                   meeting_id == ContextMeeting(args.meeting_id, found_name,
                                                has_meeting_pronoun(args.user_query))
                   branch == TaskBranch(ql, meeting_id, found_name)
                   status == TaskStatus(ql, branch)
                   q == BranchQuery(branch, ql, args.user_id, meeting_id, found_name, status)
                   l == [loc EXCEPT !.t.meeting_id = meeting_id, !.t.found_name = found_name,
                                    !.t.branch = branch, !.t.status = status]
               IN  /\ hist' = [hist EXCEPT !.calls = @ + 2]
                   /\ IF meeting_id = 0 /\ ~ContainsAny(ql, global_words)
                         /\ ContainsAny(ql, back_references)
                      THEN \* returns before the branches are tested
                           TaskReturn([l EXCEPT !.t.branch = "none", !.t.status = Null],
                                      Plain("which_meeting"), <<>>)
                      ELSE IF q.order = "none"
                      THEN TaskReturn(l, Plain(IF branch = "others" THEN "which_meeting_assignees"
                                               ELSE "which_assignee"), <<>>)
                      ELSE /\ loc' = [l EXCEPT !.t.query = q]
                           /\ pc' = "st_query"
    /\ UNCHANGED <<parseVars, keywordVars, rankVars, mergeVars, store, enable_persona, entry, args, open, result>>

\* The task statement of the branch
StQuery ==
    /\ pc = "st_query"
    /\ \E fails \in BOOLEAN :
          IF fails THEN TaskCaught(StoreFailure(hist, "tasks"))
          ELSE /\ loc' = [loc EXCEPT !.t.tasks = FetchTasks(store, loc.t.query, RequestNow)]
               /\ hist' = StoreCall(hist)
               /\ pc' = "st_action_items"
    /\ UNCHANGED <<parseVars, keywordVars, rankVars, mergeVars, store, enable_persona, entry, args, open, result>>

\* Whether the branch asks the store for the meeting's title
NeedsTitle(t, tasks) ==
    \/ t.branch = "mine" /\ t.query.meeting_id # 0 /\ (tasks = <<>> \/ ~Truthy(tasks[1].meeting_title))
    \/ t.branch = "others" /\ tasks = <<>>
    \/ t.branch = "meeting" /\ t.query.not_user_id # 0 /\ tasks = <<>>
    \/ t.branch = "meeting" /\ t.query.not_user_id = 0
          /\ (tasks = <<>> \/ ~Truthy(tasks[1].meeting_title))

\* fetch_action_items, whose handler turns a failure into no rows, and the merge
StActionItems ==
    /\ pc = "st_action_items"
    /\ \E fails \in BOOLEAN :
          LET action_items == IF fails THEN <<>>
                              ELSE ActionItemRows(store, loc.t.meeting_id, args.user_id, loc.t.status)
              tasks == merge_tasks_and_actions(loc.t.tasks, action_items)
          IN  /\ loc' = [loc EXCEPT !.t.tasks = tasks,
                                    !.t.meeting_title = IF tasks # <<>> THEN tasks[1].meeting_title ELSE Null]
              /\ hist' = IF fails THEN StoreFailure(hist, "action_items") ELSE StoreCall(hist)
              /\ pc' = IF NeedsTitle(loc.t, tasks) THEN "st_title" ELSE "st_answer"
    /\ UNCHANGED <<parseVars, keywordVars, rankVars, mergeVars, store, enable_persona, entry, args, open, result>>

\* SELECT title FROM meeting WHERE id = %s
StTitle ==
    /\ pc = "st_title"
    /\ \E fails \in BOOLEAN :
          IF fails THEN TaskCaught(StoreFailure(hist, "title"))
          ELSE /\ loc' = [loc EXCEPT !.t.meeting_title = TitleOfMeeting(store, loc.t.meeting_id)]
               /\ hist' = [hist EXCEPT !.calls = @ + (IF loc.t.branch = "mine"
                                    /\ TitleOfMeeting(store, loc.t.meeting_id) = Null THEN 2 ELSE 1)]
               /\ pc' = "st_answer"
    /\ UNCHANGED <<parseVars, keywordVars, rankVars, mergeVars, store, enable_persona, entry, args, open, result>>

\* The answer of the branch
StAnswer ==
    /\ pc = "st_answer"
    /\ IF loc.t.tasks = <<>>
       THEN TaskReturn(loc, Plain("no_tasks"), <<>>)
       ELSE TaskReturn(loc, Msg("tasks", Null, {}, Detail("tasks", loc.t.tasks)),
                       loc.t.tasks)
    /\ UNCHANGED <<parseVars, keywordVars, rankVars, mergeVars, store, enable_persona, entry, args, open, result, hist>>

\* The with block ends and search_tasks returns
StExit ==
    /\ pc = "st_exit"
    /\ open' = WithExit(open)
    /\ hist' = Release(hist)
    /\ result' = Returned(loc.pending.message, loc.pending.records)
    /\ pc' = "done"
    /\ UNCHANGED <<parseVars, keywordVars, rankVars, mergeVars, store, enable_persona, entry, args, loc>>


(***************************************************************************)
(* search_participants(query_type, meeting_id, person_name)                *)
(***************************************************************************)
\* An exception inside the try block of search_participants, which encloses
\* the with block
ParticipantsCaught(h) ==
    /\ loc' = [loc EXCEPT !.pending = [message |-> Plain("participant_search_error"),
                                       records |-> <<>>]]
    /\ hist' = h
    /\ pc' = "sp_exit"

ParticipantsReturn(message, records) ==
    /\ loc' = [loc EXCEPT !.pending = [message |-> message, records |-> records]]
    /\ pc' = "sp_exit"

\* The caller invokes search_participants
CallSearchParticipants ==
    /\ pc = "idle"
    /\ \E query_type \in {"meeting_participants", "person_meetings", "other"},
          meeting_id \in {0, 1, 4}, person_name \in {Null, N_lee} :
          args' = [NoArgs EXCEPT !.query_type = query_type, !.meeting_id = meeting_id,
                                 !.person_name = person_name]
    /\ loc' = NoLoc
    /\ pc' = "sp_enter"
    /\ entry' = "search_participants"
    /\ hist' = NoHist
    /\ result' = NoResult
    /\ UNCHANGED <<parseVars, keywordVars, rankVars, mergeVars, store, enable_persona, open>>

\* `with get_db_connection() as conn:` and the tests that need no statement
SpEnter ==
    /\ pc = "sp_enter"
    /\ \E connected \in BOOLEAN :
          IF ~connected
          THEN /\ result' = Returned(Plain("connection_failed"), <<>>)
               /\ pc' = "done"
               /\ hist' = NotConnected(hist)
               /\ UNCHANGED <<open, loc>>
          ELSE /\ open' = WithEnter(open, "conn")
               /\ hist' = Acquire(hist, open')
               /\ UNCHANGED result
               /\ IF args.query_type = "meeting_participants"
                  THEN IF args.meeting_id = 0
                       THEN ParticipantsReturn(Plain("no_meeting_given"), <<>>)
                       ELSE pc' = "sp_meeting" /\ UNCHANGED loc
                  ELSE IF args.query_type = "person_meetings"
                  THEN IF ~Truthy(args.person_name)
                       THEN ParticipantsReturn(Plain("no_name_given"), <<>>)
                       ELSE pc' = "sp_person" /\ UNCHANGED loc
                  ELSE ParticipantsReturn(Plain("bad_query_type"), <<>>)
    /\ UNCHANGED <<parseVars, keywordVars, rankVars, mergeVars, store, enable_persona, entry, args>>

\* SELECT p.name, p.speaker_id, u.job FROM participant p LEFT JOIN user u
\* WHERE p.meeting_id = %s ORDER BY p.name
ParticipantRows(st, meeting_id) ==
    LET names == SeqOfSet({p.name : p \in {x \in st.participant : x.meeting_id = meeting_id}})
    IN  [i \in 1..Len(names) |->
            [name |-> names[i],
             job |-> IF \E u \in st.user : u.name = names[i]
                     THEN (CHOOSE u \in st.user : u.name = names[i]).job ELSE Null]]

\* The meeting, then its participants.  format_meeting_participants is
\* imported from the top-level module `formatting` at this point, which
\* exists or not depending on the installation.
SpMeeting ==
    /\ pc = "sp_meeting"
    /\ \E outcome \in {"failed", "import_error", "answered"} :
          IF outcome = "failed" THEN ParticipantsCaught(StoreFailure(hist, "participants"))
          ELSE IF TitleOfMeeting(store, args.meeting_id) = Null
          THEN hist' = StoreCall(hist) /\ ParticipantsReturn(Plain("meeting_not_found"), <<>>)
          ELSE LET participants == ParticipantRows(store, args.meeting_id)
               IN  /\ hist' = [hist EXCEPT !.calls = @ + 2]
                   /\ IF participants = <<>>
                      THEN ParticipantsReturn(Plain("no_participants"), <<>>)
                      ELSE IF outcome = "import_error"
                      THEN ParticipantsReturn(Plain("participant_search_error"), <<>>)
                      ELSE ParticipantsReturn(Plain("meeting_participants"), participants)
    /\ UNCHANGED <<parseVars, keywordVars, rankVars, mergeVars, store, enable_persona, entry, args, open, result>>

\* SELECT m.id, m.title, ... FROM meeting m JOIN participant p WHERE p.name = %s
\* ORDER BY m.scheduled_at DESC LIMIT 50 (one row for each participant row)
PersonMeetings(st, name) ==
    LET ms == NewestFirst({m \in st.meeting :
                              \E p \in st.participant : p.meeting_id = m.id /\ p.name = name})
    IN  Take([i \in 1..Len(ms) |->
                [id |-> ms[i].id, title |-> ms[i].title, scheduled_at |-> ms[i].scheduled_at,
                 status |-> ms[i].status, description |-> ms[i].description]], 50)

\* The user whose name is like person_name, then the meetings attended
SpPerson ==
    /\ pc = "sp_person"
    /\ \E outcome \in {"failed", "import_error", "answered"} :
          LET users == {u \in store.user : Like(u.name, args.person_name)}
          IN  IF outcome = "failed" THEN ParticipantsCaught(StoreFailure(hist, "person"))
              ELSE IF users = {}
              THEN hist' = StoreCall(hist) /\ ParticipantsReturn(Plain("person_not_found"), <<>>)
              ELSE LET user == CHOOSE u \in users : \A v \in users : u.id <= v.id
                       meetings == PersonMeetings(store, user.name)
                   IN  /\ hist' = [hist EXCEPT !.calls = @ + 2]
                       /\ IF meetings = <<>>
                          THEN ParticipantsReturn(Plain("no_meetings_attended"), <<>>)
                          ELSE IF outcome = "import_error"
                          THEN ParticipantsReturn(Plain("participant_search_error"), <<>>)
                          ELSE ParticipantsReturn(Plain("person_meetings"), meetings)
    /\ UNCHANGED <<parseVars, keywordVars, rankVars, mergeVars, store, enable_persona, entry, args, open, result>>

\* The with block ends and search_participants returns
SpExit ==
    /\ pc = "sp_exit"
    /\ open' = WithExit(open)
    /\ hist' = Release(hist)
    /\ result' = Returned(loc.pending.message, loc.pending.records)
    /\ pc' = "done"
    /\ UNCHANGED <<parseVars, keywordVars, rankVars, mergeVars, store, enable_persona, entry, args, loc>>

(***************************************************************************)
(* search_keywords(keyword_name, user_job)                                 *)
(***************************************************************************)
\* SELECT DISTINCT m.*, mr.summary, ... FROM meeting m ... JOIN keyword k
\* WHERE k.name LIKE %s ORDER BY m.scheduled_at DESC LIMIT 50
KeywordMeetings(st, keyword_name) ==
    LET ms == NewestFirst({m \in st.meeting :
                              \E k \in st.keyword : k.meeting_id = m.id /\ Like(k.name, keyword_name)})
    IN  Take([i \in 1..Len(ms) |-> MeetingRow(st, ms[i])], 50)

\* The caller invokes search_keywords
CallSearchKeywords ==
    /\ pc = "idle"
    /\ \E keyword_name \in { <<46356, 51088, 51064>> (* 디자인 *), <<48176, 54252>> (* 배포 *), <<50696, 49328>> (* 예산 *) }, user_job \in {Null, UserJobOf(1)} :
          args' = [NoArgs EXCEPT !.keyword_name = keyword_name, !.user_job = user_job]
    /\ loc' = NoLoc
    /\ pc' = "sk_enter"
    /\ entry' = "search_keywords"
    /\ hist' = NoHist
    /\ result' = NoResult
    /\ UNCHANGED <<parseVars, keywordVars, rankVars, mergeVars, store, enable_persona, open>>

\* `with get_db_connection() as conn:` and `if not conn: return ...`
SkEnter ==
    /\ pc = "sk_enter"
    /\ \E connected \in BOOLEAN :
          IF connected
          THEN /\ open' = WithEnter(open, "conn")
               /\ hist' = Acquire(hist, open')
               /\ pc' = "sk_query"
               /\ UNCHANGED result
          ELSE /\ result' = Returned(Plain("connection_failed"), <<>>)
               /\ pc' = "done"
               /\ hist' = NotConnected(hist)
               /\ UNCHANGED open
    /\ UNCHANGED <<parseVars, keywordVars, rankVars, mergeVars, store, enable_persona, entry, args, loc>>

\* The statement and the answer
SkQuery ==
    /\ pc = "sk_query"
    /\ \E fails \in BOOLEAN :
          IF fails
          THEN /\ loc' = [loc EXCEPT !.pending = [message |-> Plain("keyword_search_error"),
                                                  records |-> <<>>]]
               /\ hist' = StoreFailure(hist, "keywords")
          ELSE LET meetings == PersonaSorted(KeywordMeetings(store, args.keyword_name))
               IN  /\ hist' = StoreCall(hist)
                   /\ loc' = [loc EXCEPT !.pending =
                         IF meetings = <<>>
                         THEN [message |-> Plain("no_meeting_with_keyword"), records |-> <<>>]
                         ELSE IF Len(meetings) = 1
                         THEN [message |-> Msg("keyword_detail", Null, {},
                                               FormatSingle(meetings[1], Null, FALSE)),
                               records |-> meetings]
                         ELSE [message |-> Msg("keyword_list", Null, {},
                                               FormatMultiple(Take(meetings, 10))),
                               records |-> meetings]]
    /\ pc' = "sk_exit"
    /\ store' = StoreAfterDecoration(store, loc'.pending.records)
    /\ UNCHANGED <<parseVars, keywordVars, rankVars, mergeVars, enable_persona, entry, args, open, result>>

\* The with block ends and search_keywords returns
SkExit ==
    /\ pc = "sk_exit"
    /\ open' = WithExit(open)
    /\ hist' = Release(hist)
    /\ result' = Returned(loc.pending.message, loc.pending.records)
    /\ pc' = "done"
    /\ UNCHANGED <<parseVars, keywordVars, rankVars, mergeVars, store, enable_persona, entry, args, loc>>

(***************************************************************************)
(* SpecParse: parse_date_from_query applied to every query built from at   *)
(* most MaxFrags fragments, at every clock reading of NowCatalog           *)
(***************************************************************************)
MaxFrags == 2

Frags ==
    { <<51, 50900, 32, 53, 51068>> (* 3월 5일 *), <<49, 50, 50900, 32, 51, 49, 51068>> (* 12월 31일 *), <<50, 50900, 32, 51, 48, 51068>> (* 2월 30일 *), <<51, 50900>> (* 3월 *), <<49, 51, 50900>> (* 13월 *), <<54, 50900>> (* 6월 *), <<48, 50900, 32, 53, 51068>> (* 0월 5일 *),
      <<51, 50900, 32, 53, 51068, 48512, 53552, 32>> (* 3월 5일부터  *), <<49, 50, 50900, 32, 51, 49, 51068, 126>> (* 12월 31일~ *), <<50, 50900, 32, 51, 48, 51068, 48512, 53552, 32>> (* 2월 30일부터  *), <<51, 50900, 126>> (* 3월~ *), <<51, 50900, 48512, 53552, 32>> (* 3월부터  *),
      <<54, 50900, 44620, 51648>> (* 6월까지 *), <<48512, 53552, 32>> (* 부터  *), <<126>> (* ~ *), <<50724, 45720>> (* 오늘 *), <<50612, 51228>> (* 어제 *), <<51060, 48264, 32, 51452>> (* 이번 주 *), <<51648, 45212, 51452>> (* 지난주 *),
      <<51060, 48264, 45804>> (* 이번달 *), <<51648, 45212, 45804>> (* 지난달 *), <<52572, 44540>> (* 최근 *), <<50, 48, 50, 52, 45380, 32>> (* 2024년  *), <<54924, 51032>> (* 회의 *) }

RECURSIVE Concat(_)
Concat(ts) == IF ts = <<>> THEN <<>> ELSE ts[1] \o Concat(Tail(ts))

ParseQueries == {Concat(fs) : fs \in UNION {[1..n -> Frags] : n \in 0..MaxFrags}}

\* Clock readings: a year start inside a week that began in the previous
\* year, the day after a leap day, a year end with a sub-second part, a Sunday
NowCatalog ==
    { Dt(2025, 1, 2, 10, 15, 30, 0),
      Dt(2024, 3, 1, 0, 0, 0, 0),
      Dt(2025, 12, 31, 23, 59, 59, 500000),
      Dt(2025, 6, 15, 9, 0, 0, 250000) }

InitParse ==
    /\ pq \in ParseQueries
    /\ pnow \in NowCatalog
    /\ pres = NoDateInfo
    /\ ppc = "ready"
    /\ store = StoreOf({})
    /\ enable_persona = FALSE
    /\ pc = "off"
    /\ entry = "none"
    /\ args = NoArgs
    /\ loc = NoLoc
    /\ open = <<>>
    /\ result = NoResult
    /\ hist = NoHist
    /\ kq = <<>>
    /\ kres = <<>>
    /\ kagain = <<>>
    /\ kpc = "off"
    /\ rmeetings = <<>>
    /\ ruser_job = Null
    /\ rfinal = NoRanking
    /\ rpc = "off"
    /\ mtasks = <<>>
    /\ mactions = <<>>
    /\ mmerged = <<>>
    /\ mpc = "off"

ParseDate ==
    /\ ppc = "ready"
    /\ pres' = parse_date_from_query(pq, pnow)
    /\ ppc' = "parsed"
    /\ UNCHANGED <<pq, pnow, keywordVars, rankVars, mergeVars, engineVars>>

NextParse == ParseDate

SpecParse == InitParse /\ [][NextParse]_vars

(***************************************************************************)
(* SpecKeywords: extract_keywords_from_query applied to every utterance of *)
(* at most MaxWords words, and then to its own result joined with spaces   *)
(***************************************************************************)
MaxWords == 2

KeywordWords ==
    { <<46356, 51088, 51064>> (* 디자인 *), <<54016, 54924, 51032>> (* 팀회의 *), <<46356, 51088, 51064, 54924, 51032>> (* 디자인회의 *), <<54924, 51032>> (* 회의 *), <<51452, 44036, 54924, 51032, 44288, 47144>> (* 주간회의관련 *), <<48372, 50504, 44288, 47144>> (* 보안관련 *), <<50612, 51228>> (* 어제 *),
      <<51080, 50612, 63>> (* 있어? *), <<65, 73>> (* AI *), <<97, 112, 105>> (* api *), <<81, 52>> (* Q4 *), <<107>> (* k *), <<88>> (* X *), <<49, 50>> (* 12 *), <<51, 50900>> (* 3월 *), <<50696, 49328, 50504, 51012>> (* 예산안을 *), <<47532, 48624>> (* 리뷰 *) }

\* ' '.join(words)
RECURSIVE JoinSpace(_)
JoinSpace(words) ==
    IF words = <<>> THEN <<>>
    ELSE IF Len(words) = 1 THEN words[1]
    ELSE words[1] \o <<32>> \o JoinSpace(Tail(words))

KeywordQueries == {JoinSpace(ws) : ws \in UNION {[1..n -> KeywordWords] : n \in 0..MaxWords}}

InitKeywords ==
    /\ kq \in KeywordQueries
    /\ kres = <<>>
    /\ kagain = <<>>
    /\ kpc = "ready"
    /\ rmeetings = <<>>
    /\ ruser_job = Null
    /\ rfinal = NoRanking
    /\ rpc = "off"
    /\ mtasks = <<>>
    /\ mactions = <<>>
    /\ mmerged = <<>>
    /\ mpc = "off"
    /\ pq = <<>>
    /\ pnow = RequestNow
    /\ pres = NoDateInfo
    /\ ppc = "off"
    /\ store = StoreOf({})
    /\ enable_persona = FALSE
    /\ pc = "off"
    /\ entry = "none"
    /\ args = NoArgs
    /\ loc = NoLoc
    /\ open = <<>>
    /\ result = NoResult
    /\ hist = NoHist

\* keywords = extract_keywords_from_query(utterance)
ExtractKeywords ==
    /\ kpc = "ready"
    /\ kres' = extract_keywords_from_query(kq)
    /\ kpc' = "extracted"
    /\ UNCHANGED <<kq, kagain, parseVars, rankVars, mergeVars, engineVars>>

\* extract_keywords_from_query(' '.join(keywords))
ExtractAgain ==
    /\ kpc = "extracted"
    /\ kagain' = extract_keywords_from_query(JoinSpace(kres))
    /\ kpc' = "again"
    /\ UNCHANGED <<kq, kres, parseVars, rankVars, mergeVars, engineVars>>

NextKeywords ==
    \/ ExtractKeywords
    \/ ExtractAgain

SpecKeywords == InitKeywords /\ [][NextKeywords]_vars

(***************************************************************************)
(* SpecPersona: search_with_persona applied to every list of at most       *)
(* MaxRanked distinct rows and every persona tag                           *)
(***************************************************************************)
MaxRanked == 3

\* The rows a statement over the whole catalog fetches, and one row without a
\* scheduled time (scheduled_at NULL: its time_distance is float('inf'))
RankedRows ==
    {MeetingRow(StoreOf(MeetingCatalog), m) : m \in MeetingCatalog}
    \cup {[id |-> 5, title |-> <<65, 80, 73, 32, 49436, 48260, 32, 51216, 44160>> (* API 서버 점검 *), description |-> Null, status |-> SCHEDULED,
           scheduled_at |-> NoDt, host_user_id |-> 1, summary |-> Null]}

\* None, the tag NONE, a tag job_keywords does not know, and three it knows
PersonaTags ==
    {Null, <<78, 79, 78, 69>> (* NONE *), <<68, 69, 83, 73, 71, 78, 69, 82>> (* DESIGNER *), <<70, 82, 79, 78, 84, 69, 78, 68, 95, 68, 69, 86, 69, 76, 79, 80, 69, 82>> (* FRONTEND_DEVELOPER *), <<66, 65, 67, 75, 69, 78, 68, 95, 68, 69, 86, 69, 76, 79, 80, 69, 82>> (* BACKEND_DEVELOPER *), <<83, 69, 67, 85, 82, 73, 84, 89, 95, 68, 69, 86, 69, 76, 79, 80, 69, 82>> (* SECURITY_DEVELOPER *)}

RankedLists ==
    {ms \in UNION {[1..n -> RankedRows] : n \in 0..MaxRanked} :
        \A i \in 1..Len(ms) : \A j \in 1..Len(ms) : i # j => ms[i] # ms[j]}

InitPersona ==
    /\ rmeetings \in RankedLists
    /\ ruser_job \in PersonaTags
    /\ rfinal = NoRanking
    /\ rpc = "ready"
    /\ mtasks = <<>>
    /\ mactions = <<>>
    /\ mmerged = <<>>
    /\ mpc = "off"
    /\ pq = <<>>
    /\ pnow = RequestNow
    /\ pres = NoDateInfo
    /\ ppc = "off"
    /\ kq = <<>>
    /\ kres = <<>>
    /\ kagain = <<>>
    /\ kpc = "off"
    /\ store = StoreOf({})
    /\ enable_persona = TRUE
    /\ pc = "off"
    /\ entry = "none"
    /\ args = NoArgs
    /\ loc = NoLoc
    /\ open = <<>>
    /\ result = NoResult
    /\ hist = NoHist

\* final_sorted = search_with_persona(meetings, user_job)
RankWithPersona ==
    /\ rpc = "ready"
    /\ rfinal' = search_with_persona(rmeetings, ruser_job, RequestNow)
    /\ rpc' = "ranked"
    /\ UNCHANGED <<rmeetings, ruser_job, parseVars, keywordVars, mergeVars, engineVars>>

NextPersona ==
    \/ RankWithPersona

SpecPersona == InitPersona /\ [][NextPersona]_vars

(***************************************************************************)
(* SpecMerge: merge_tasks_and_actions applied to every pair of short       *)
(* lists of at most MaxMerged rows, and to long lists whose joint length   *)
(* passes the 30 rows the function keeps                                   *)
(***************************************************************************)
MaxMerged == 2

\* The due dates of the rows: none, midnights, a time of day with
\* microseconds, and the last second of the year before
DueCatalog ==
    << NoDt, Dt(2025, 6, 12, 0, 0, 0, 0), Dt(2025, 6, 11, 0, 0, 0, 0),
       Dt(2025, 6, 12, 9, 30, 0, 250000), Dt(2024, 12, 31, 23, 59, 59, 0) >>

\* The lengths of the long lists
LongLengths == {17, 31}

\* A row of the task statement, and a row of fetch_action_items' statement
MergeTaskRow(i, due) == [id |-> i, due_date |-> due]
MergeActionRow(i, due) == [id |-> 100 + i, due_date |-> due, source_table |-> "action_item"]

\* The due dates of a long list: the catalog over and over, from a phase
DueCycle(i, phase) == DueCatalog[((i + phase) % Len(DueCatalog)) + 1]

MergeDueChoices == UNION {[1..n -> 1..Len(DueCatalog)] : n \in 0..MaxMerged}

ShortTaskLists == {[i \in 1..Len(d) |-> MergeTaskRow(i, DueCatalog[d[i]])] : d \in MergeDueChoices}
ShortActionLists == {[i \in 1..Len(d) |-> MergeActionRow(i, DueCatalog[d[i]])] : d \in MergeDueChoices}
LongTaskLists ==
    {[i \in 1..n |-> MergeTaskRow(i, DueCycle(i, phase))] : n \in LongLengths, phase \in {0, 2}}
LongActionLists ==
    {[i \in 1..n |-> MergeActionRow(i, DueCycle(i, phase))] : n \in LongLengths, phase \in {1, 3}}

InitMerge ==
    /\ mtasks \in ShortTaskLists \cup LongTaskLists
    /\ mactions \in ShortActionLists \cup LongActionLists
    /\ mmerged = <<>>
    /\ mpc = "ready"
    /\ rmeetings = <<>>
    /\ ruser_job = Null
    /\ rfinal = NoRanking
    /\ rpc = "off"
    /\ pq = <<>>
    /\ pnow = RequestNow
    /\ pres = NoDateInfo
    /\ ppc = "off"
    /\ kq = <<>>
    /\ kres = <<>>
    /\ kagain = <<>>
    /\ kpc = "off"
    /\ store = StoreOf({})
    /\ enable_persona = TRUE
    /\ pc = "off"
    /\ entry = "none"
    /\ args = NoArgs
    /\ loc = NoLoc
    /\ open = <<>>
    /\ result = NoResult
    /\ hist = NoHist

\* tasks = merge_tasks_and_actions(list(tasks), action_items)
MergeRows ==
    /\ mpc = "ready"
    /\ mmerged' = merge_tasks_and_actions(mtasks, mactions)
    /\ mpc' = "merged"
    /\ UNCHANGED <<mtasks, mactions, parseVars, keywordVars, rankVars, engineVars>>

NextMerge ==
    \/ MergeRows

SpecMerge == InitMerge /\ [][NextMerge]_vars


(***************************************************************************)
(* Spec: the entry points called one after another against one store       *)
(***************************************************************************)
Init ==
    /\ store \in Stores
    /\ enable_persona \in BOOLEAN
    /\ pc = "idle"
    /\ entry = "none"
    /\ args = NoArgs
    /\ loc = NoLoc
    /\ open = <<>>
    /\ result = NoResult
    /\ hist = NoHist
    /\ pq = <<>>
    /\ pnow = RequestNow
    /\ pres = NoDateInfo
    /\ ppc = "off"
    /\ kq = <<>>
    /\ kres = <<>>
    /\ kagain = <<>>
    /\ kpc = "off"
    /\ rmeetings = <<>>
    /\ ruser_job = Null
    /\ rfinal = NoRanking
    /\ rpc = "off"
    /\ mtasks = <<>>
    /\ mactions = <<>>
    /\ mmerged = <<>>
    /\ mpc = "off"

Next ==
    \/ CallSearchMeetingsDirect
    \/ SmdPreEnter
    \/ SmdPreUser
    \/ SmdPreParticipants
    \/ SmdPreExit
    \/ SmdMainEnter
    \/ SmdRoute
    \/ SmdListQuery
    \/ SmdListFinish
    \/ SmdDateOnlyQuery
    \/ SmdDateOnlyDiag
    \/ SmdDateOnlyFinish
    \/ SmdRung0
    \/ SmdRung1
    \/ SmdRung2Vocab
    \/ SmdRung2
    \/ SmdFinal
    \/ SmdFormat
    \/ SmdCountReturn
    \/ SmdExit
    \/ CallSearchMeetingCount
    \/ SmcEnter
    \/ SmcCount
    \/ SmcDetail
    \/ SmcExit
    \/ SmcReturn
    \/ CallSearchTasks
    \/ StEnter
    \/ StUsers
    \/ StQuery
    \/ StActionItems
    \/ StTitle
    \/ StAnswer
    \/ StExit
    \/ CallSearchParticipants
    \/ SpEnter
    \/ SpMeeting
    \/ SpPerson
    \/ SpExit
    \/ CallSearchKeywords
    \/ SkEnter
    \/ SkQuery
    \/ SkExit
    \/ Finish

Spec == Init /\ [][Next]_vars

(***************************************************************************)
(* Claims about the temporal parser (checked under SpecParse)              *)
(***************************************************************************)
DatedKinds == {"relative", "absolute", "range"}

\* C9: parse_date_from_query returns one DateInfo; a kind among relative,
\* absolute and range has both start and end set, and kind none has start,
\* end and original text all empty.
C9_DateInfoShape ==
    ppc = "parsed" =>
        /\ pres.type \in DatedKinds \cup {"None"}
        /\ pres.type \in DatedKinds =>
               pres.start_date # NoDt /\ pres.end_date # NoDt
        /\ pres.type = "None" =>
               pres.start_date = NoDt /\ pres.end_date = NoDt /\ pres.original = <<>>

\* C9 witness: a query that names a month was parsed and no rule applied
\* (an invalid calendar date was skipped), leaving every field empty
C9_Witness ==
    /\ ppc = "parsed"
    /\ Contains(pq, W_wol)
    /\ pres.type = "None"
    /\ pres.start_date = NoDt

\* C10: every window starts at exactly 00:00:00 of its first day and ends at
\* 23:59:59 of its last day, whatever the reading of the clock, so that a
\* meeting scheduled at 00:00:00 of the first day satisfies start <= scheduled_at.
C10_DayBounds ==
    (ppc = "parsed" /\ pres.type \in DatedKinds) =>
        LET s == pres.start_date
            e == pres.end_date
            firstMidnight == Dt(s.year, s.month, s.day, 0, 0, 0, 0)
        IN  /\ s = firstMidnight
            /\ e.hour = 23 /\ e.minute = 59 /\ e.second = 59
            /\ DtLE(s, firstMidnight)

\* The texts 'M1월~M2월' and 'M1월부터 M2월까지' of two months
MonthRangeTexts(m1, m2) ==
    { IntText(m1) \o W_wol \o <<126>> (* ~ *) \o IntText(m2) \o W_wol,
      IntText(m1) \o W_wol \o W_buteo \o <<32>> \o IntText(m2) \o W_wol \o W_kkaji }

\* C11: a query whose only date expression is a month-to-month range
\* 'M1월~M2월' or 'M1월부터 M2월까지' (valid months, no day, no relative word)
\* is parsed as kind range, from the first day of M1 at 00:00:00 to the last
\* day of M2 at 23:59:59 of the current year.
C11_MonthToMonthRange ==
    \A m1 \in 1..12 : \A m2 \in 1..12 :
        (ppc = "parsed" /\ pq \in MonthRangeTexts(m1, m2)) =>
            /\ pres.type = "range"
            /\ pres.start_date = Dt(pnow.year, m1, 1, 0, 0, 0, 0)
            /\ pres.end_date = Dt(pnow.year, m2, DaysInMonth(pnow.year, m2), 23, 59, 59, 0)

\* What each date pattern makes of the query, in the order of precedence
PatternResults ==
    << DayRangeFrom(1, pq, pnow), RelativeWindow(pq, pnow), MonthOnly(pq, pnow),
       SingleDate(pq, pnow), MonthRangeFrom(1, pq, pnow) >>

IsCalendarDate(d) == ValidDate(d.year, d.month, d.day)

\* Fragments that are date patterns with an impossible month or day, and
\* connectives
InvalidFrags ==
    { <<50, 50900, 32, 51, 48, 51068>> (* 2월 30일 *), <<49, 51, 50900>> (* 13월 *), <<48, 50900, 32, 53, 51068>> (* 0월 5일 *), <<50, 50900, 32, 51, 48, 51068, 48512, 53552, 32>> (* 2월 30일부터  *), <<48512, 53552, 32>> (* 부터  *), <<126>> (* ~ *), <<54924, 51032>> (* 회의 *) }

C26_StartNotAfterEnd ==
    (ppc = "parsed" /\ pres.type \in DatedKinds) => DtLE(pres.start_date, pres.end_date)

\* C26 on the kinds that are not explicit ranges: a relative or an absolute
\* window never ends before it starts
WindowsOrderedOutsideRanges ==
    (ppc = "parsed" /\ pres.type \in {"relative", "absolute"}) =>
        DtLE(pres.start_date, pres.end_date)

(***************************************************************************)
(* Claims about the search engine (checked under Spec)                     *)
(***************************************************************************)
PublicEntryPoints ==
    {"search_meetings_direct", "search_tasks", "search_participants", "search_keywords"}

\* C1: at each public entry point (search_meetings_direct, search_tasks,
\* search_participants, search_keywords) a failure of any store call, the
\* lookups of the requester's name and of the participant names included,
\* raises nothing to the caller: the call returns (message, records) with
\* records empty.
C1_StoreFailureContained ==
    (pc = "done" /\ entry \in PublicEntryPoints /\ hist.store_failed # "no") =>
        (result.outcome = "returned" /\ result.records = <<>>)

RungOrder(r) == IF r = "primary" THEN 0 ELSE IF r = "rung1" THEN 1 ELSE 2

\* C2: one call of search_meetings_direct executes at most three rungs (the
\* primary query, rung 1, rung 2), none of them twice and never an earlier
\* one after a later one, and it always comes to a return, with a success or
\* with the final failure message.
C2_LadderTerminates ==
    entry = "search_meetings_direct" =>
        /\ Len(hist.rungs) <= 3
        /\ \A i \in 1..Len(hist.rungs) : \A j \in 1..Len(hist.rungs) :
               i < j => RungOrder(hist.rungs[i]) < RungOrder(hist.rungs[j])
        /\ pc = "done" => result.outcome = "returned"

\* C3: whenever rung 1 returns at least one row, the message of the call says
\* that no meeting in the requested state exists and names the state that was
\* found, a state other than the requested one.
C3_Rung1NamesOtherState ==
    ( /\ pc = "done" /\ entry = "search_meetings_direct"
      /\ hist.rungs # <<>> /\ hist.rungs[Len(hist.rungs)] = "rung1"
      /\ hist.fallback_rows # <<>> ) =>
        /\ result.outcome = "returned"
        /\ result.message.kind \in {"other_state_single", "other_state_multiple"}
        /\ result.message.requested = status_kr(args.status)
        /\ result.message.found # {}
        /\ result.message.found \subseteq
               {status_kr(hist.fallback_rows[i].status) : i \in 1..Len(hist.fallback_rows)}
        /\ result.message.requested \notin result.message.found

\* A call of search_meetings_direct that took one of the two bypass paths (a
\* list-style request, or a request with a date window and neither keywords
\* nor state) and came back with every connection given and no store call
\* failing
BypassCallDone ==
    /\ pc = "done" /\ entry = "search_meetings_direct"
    /\ hist.store_failed = "no" /\ hist.connected
    /\ \/ hist.path = "list"
       \/ hist.path = "date_only" /\ HasStart(args.date_info)

\* C4: a list-style request and a date-only request each execute one
\* simplified listing query capped at 20 rows and bypass the ladder: neither
\* rung 1 nor rung 2 (nor the primary query) runs, also when the listing is
\* empty.
C4_BypassOneListing ==
    BypassCallDone =>
        /\ Len(hist.listings) = 1
        /\ hist.listings[1].limit = 20
        /\ hist.rungs = <<>>
        /\ hist.queries = <<>>

\* C5: on both bypass paths a listing of exactly one row is answered with the
\* single-meeting detail, not with the list format.
C5_BypassSingleDetail ==
    (BypassCallDone /\ result.outcome = "returned" /\ Len(result.records) = 1) =>
        /\ result.message.kind = "detail"
        /\ result.message.detail.format \in {"single", "single_persona"}

\* The meetings that match the filters of the frame of search_meeting_count
CountedIds == {m.id : m \in MatchingMeetings(store, loc.c.query)}

\* C6: search_meeting_count returns {count, meetings}; meetings are the
\* matching meetings, newest first before any persona ranking, with no row
\* limit, so that the length of meetings equals count.
C6_CountMeetingsAgree ==
    (pc = "done" /\ entry = "search_meeting_count" /\ result.message.kind = "count_object") =>
        /\ result.count = Cardinality(CountedIds)
        /\ Len(result.records) = result.count
        /\ \A i \in 1..Len(result.records) : "id" \in DOMAIN result.records[i]
        /\ (\A i \in 1..Len(result.records) : "id" \in DOMAIN result.records[i]) =>
               {result.records[i].id : i \in 1..Len(result.records)} = CountedIds

\* C7: every connection a call acquired is released by the time the entry
\* point returns or raises, on every path.
C7_ConnectionsReleased ==
    pc = "done" => (open = <<>> /\ hist.released = hist.acquired)

\* C7 witness: a call of search_meetings_direct that went through the
\* pre-lookup block, the main block and the nested count, had a store call
\* fail, and ended with each of its connections released
C7_Witness ==
    /\ pc = "done" /\ entry = "search_meetings_direct"
    /\ hist.acquired >= 3 /\ hist.released = hist.acquired
    /\ hist.store_failed # "no"
    /\ open = <<>>

\* C8: the engine only reads the store, at all five entry points; the scores
\* it computes decorate the rows in memory.
C8_StoreReadOnly == [][store' = store]_vars

\* C8 witness: a call returned rows that carry a score, and the stored
\* meetings carry none
C8_Witness ==
    /\ pc = "done"
    /\ \E i \in 1..Len(result.records) :
          DOMAIN result.records[i] \cap {"relevance_score", "keyword_score"} # {}
    /\ \A m \in store.meeting : DOMAIN m \cap {"relevance_score", "keyword_score"} = {}

\* The rows the primary query of the call fetched
PrimaryCandidates == FetchMeetings(store, hist.queries[1])

\* The candidates whose title is the trimmed, case-folded query text
TitleMatches ==
    {i \in 1..Len(PrimaryCandidates) :
        Strip(Lower(PrimaryCandidates[i].title)) = Strip(Lower(args.user_query))}

\* C14: whenever exactly one of the candidates the primary query returned has
\* a title equal to the trimmed, case-folded query text, the result set is
\* that single meeting, whatever the order of the candidates and whatever the
\* other titles are.
C14_ExactTitleCollapse ==
    ( /\ pc = "done" /\ entry = "search_meetings_direct"
      /\ hist.rungs # <<>> /\ hist.queries # <<>>
      /\ Cardinality(TitleMatches) = 1 ) =>
        /\ result.outcome = "returned"
        /\ Len(result.records) = 1
        /\ \A i \in TitleMatches : result.records[1].id = PrimaryCandidates[i].id

\* C14 witness: the primary query returned two candidates, the second of them
\* carries the title that was asked for, and the call returned that one alone
C14_Witness ==
    /\ pc = "done" /\ entry = "search_meetings_direct"
    /\ hist.rungs = <<"primary">> /\ hist.queries # <<>>
    /\ Len(PrimaryCandidates) = 2 /\ TitleMatches = {2}
    /\ result.outcome = "returned" /\ Len(result.records) = 1
    /\ result.records[1].id = PrimaryCandidates[2].id

\* A 'my tasks' query answered within the meeting of the context: the branch
\* of my_task_keywords, with a meeting_id and no word for everything
MyTasksInMeeting ==
    /\ pc = "done" /\ entry = "search_tasks"
    /\ loc.t.branch = "mine" /\ loc.t.query.meeting_id # 0
    /\ result.outcome = "returned"

\* Whether a returned row belongs to the user: a task row by its user_id, an
\* action item row by the name of its assignee
RowOwnedBy(st, row, user_id) ==
    IF "user_id" \in DOMAIN row THEN row.user_id = user_id
    ELSE \E u \in st.user : u.id = user_id /\ u.name = row.assignee_name

\* C16: for a 'my tasks' query with an established meeting context and no
\* global qualifier, every row search_tasks returns, task rows and merged
\* action item rows alike, is an open (TODO) item of that meeting assigned to
\* the requester; no row of another person and no unassigned row is returned.
C16_MyTasksOnlyMine ==
    MyTasksInMeeting =>
        \A i \in 1..Len(result.records) :
            /\ result.records[i].status = TODO
            /\ result.records[i].meeting_id = args.meeting_id
            /\ RowOwnedBy(store, result.records[i], args.user_id)

\* The primary statement of the call without its conditions on the state:
\* the status itself and the scheduled-time bound that comes with it
WithoutState(q) == [q EXCEPT !.status = Null, !.not_before = NoDt, !.before = NoDt]

\* C17: rung 1 applies exactly the filters of the primary query minus the
\* lifecycle-state filter: the same attendance filter, the same keyword
\* combination (AND across the keyword groups when there is more than one
\* keyword), the same date bounds and the same restriction to the meeting
\* of the context; the rows rung 1 matches are exactly the rows the primary
\* query would match with the state condition removed.
C17_Rung1SameFilters ==
    ( /\ entry = "search_meetings_direct"
      /\ Len(hist.rungs) >= 2 /\ hist.rungs[1] = "primary" /\ hist.rungs[2] = "rung1" ) =>
        /\ hist.queries[2].p_name = hist.queries[1].p_name
        /\ hist.queries[2].keywords = hist.queries[1].keywords
        /\ hist.queries[2].kw_op = hist.queries[1].kw_op
        /\ hist.queries[2].start = hist.queries[1].start
        /\ hist.queries[2].end = hist.queries[1].end
        /\ hist.queries[2].id = hist.queries[1].id
        /\ MatchingMeetings(store, hist.queries[2])
               = MatchingMeetings(store, WithoutState(hist.queries[1]))

\* Whether the call has entered rung 2
Rung2Entered == \E i \in 1..Len(hist.rungs) : hist.rungs[i] = "rung2"

\* The final failure messages of search_meetings_direct
FinalFailureKinds ==
    {"none_on_date_in_state", "none_on_date", "none_matching", "none_on_date_for_keywords",
     "none_for_keywords", "none_in_state", "not_found"}

\* C18: ladder ordering: rung 2 (drop the date, fuzzy-corrected keywords) is
\* executed only after the primary query returned no rows and rung 1 either
\* returned no rows or was not applicable, and only when the DateInfo carries
\* a date window; with no date window the orchestrator goes from rung 1
\* directly to the final failure message.
C18_Rung2OnlyAfterRung1 ==
    entry = "search_meetings_direct" =>
        /\ Rung2Entered =>
              /\ hist.rungs[1] = "primary"
              /\ FetchMeetings(store, hist.queries[1]) = <<>>
              /\ HasStart(loc.date_info)
              /\ IF Truthy(loc.status)
                 THEN /\ Len(hist.rungs) = 3 /\ hist.rungs[2] = "rung1" /\ hist.rungs[3] = "rung2"
                      /\ FetchMeetings(store, hist.queries[2]) = <<>>
                 ELSE hist.rungs = <<"primary", "rung2">>
        /\ ( /\ pc = "done" /\ hist.store_failed = "no"
             /\ hist.rungs # <<>> /\ hist.rungs[Len(hist.rungs)] = "rung1"
             /\ FetchMeetings(store, hist.queries[2]) = <<>>
             /\ ~HasStart(loc.date_info) ) =>
              /\ result.outcome = "returned"
              /\ result.message.kind \in FinalFailureKinds
              /\ result.records = <<>>
              /\ Len(hist.queries) = 2

\* C18 witness: a call went through the primary query and rung 1, both
\* without rows, then executed the rung 2 query and returned what it found
C18_Witness ==
    /\ pc = "done" /\ entry = "search_meetings_direct"
    /\ hist.rungs = <<"primary", "rung1", "rung2">> /\ Len(hist.queries) = 3
    /\ HasStart(loc.date_info)
    /\ result.outcome = "returned" /\ result.records # <<>>

\* A second state of C18's case: rung 1 found nothing, the request carried no
\* date window, and the call ended with the final failure message
Rung1ThenFinal ==
    /\ pc = "done" /\ entry = "search_meetings_direct"
    /\ hist.rungs = <<"primary", "rung1">> /\ hist.store_failed = "no"
    /\ ~HasStart(loc.date_info)
    /\ result.message.kind \in FinalFailureKinds

\* A request without keywords and without a state whose date_info is the
\* parser's result of kind none: a dict with every field empty
NoWindowRequest ==
    /\ entry = "search_meetings_direct"
    /\ KeywordTable[args.user_query] = <<>>
    /\ ~Truthy(args.status)
    /\ IsDict(args.date_info) /\ args.date_info.type = "None"
    /\ ~HasStart(args.date_info) /\ ~HasEnd(args.date_info)

\* C19: the date-only bypass is taken only when a date window is present: for
\* a query with no keywords and no state whose DateInfo is the parser's kind
\* none result (all fields empty), search_meetings_direct does not run the
\* date-only listing query and never returns a 'no meetings on <date>'
\* message.
C19_DateOnlyNeedsWindow ==
    NoWindowRequest =>
        /\ hist.path # "date_only"
        /\ pc = "done" => result.message.kind # "no_meeting_on_date"

\* The meetings the primary statement of search_meetings_direct matches for
\* the inputs of the frame of search_meeting_count, with no meeting of the
\* context and the row cap left aside
PrimaryMatchesOfCount ==
    MatchingMeetings(store, PrimaryQuery(loc.c, 0, RequestNow))

\* C20: the statistics variant uses the filter construction of the primary
\* query: for every combination of keywords, date window, state and
\* requester name, the count search_meeting_count reports equals the number
\* of distinct meetings that satisfy the primary query's filters for the same
\* inputs (its cap of 50 rows ignored).
C20_CountSameFilters ==
    (pc = "done" /\ entry = "search_meeting_count" /\ result.message.kind = "count_object") =>
        result.count = Cardinality({m.id : m \in PrimaryMatchesOfCount})

\* A call of search_meetings_direct that has returned more than one meeting
ReturnedSeveral ==
    /\ pc = "done" /\ entry = "search_meetings_direct"
    /\ result.outcome = "returned" /\ Len(result.records) > 1

\* Which ranking the returned rows went through: the keyword scoring leaves
\* keyword_score on every row, the persona scoring leaves relevance_score
KeywordRanked == \A i \in 1..Len(result.records) : "keyword_score" \in DOMAIN result.records[i]
PersonaRanked == \A i \in 1..Len(result.records) : "relevance_score" \in DOMAIN result.records[i]

\* The paths C22 names: the rows are those of the primary query, of a
\* list-style or date-only listing, or of rung 2
FromRankedPath ==
    \/ hist.path \in {"list", "date_only"}
    \/ /\ hist.path = "hybrid" /\ hist.rungs # <<>>
       /\ hist.rungs[Len(hist.rungs)] \in {"primary", "rung2"}

\* C22: in every request that returns more than one meeting exactly one
\* ranking mode was applied: keyword-match scoring whenever the extracted
\* keywords are non-empty, and persona scoring only when personas are
\* enabled, a persona is known and no keyword scoring applied; on every path
\* that returns rows (primary result, list-style and date-only listings,
\* rung 2).
C22_OneRankingMode ==
    (ReturnedSeveral /\ FromRankedPath) =>
        /\ ~(KeywordRanked /\ PersonaRanked)
        /\ loc.keywords # <<>> => KeywordRanked
        /\ PersonaRanked => (enable_persona /\ Truthy(args.user_job) /\ loc.keywords = <<>>)

\* The part of C22 the code keeps on every path: the two scorings are never
\* both applied, and the persona scoring only with personas enabled and a
\* persona known
NeverBothRankings ==
    ReturnedSeveral =>
        /\ ~(KeywordRanked /\ PersonaRanked)
        /\ PersonaRanked => (enable_persona /\ Truthy(args.user_job))

\* C22 on the rows of the primary query alone
PrimaryOneRankingMode ==
    (ReturnedSeveral /\ hist.path = "hybrid" /\ hist.rungs = <<"primary">> /\ loc.c = NoCount) =>
        /\ loc.keywords # <<>> => (KeywordRanked /\ ~PersonaRanked)
        /\ PersonaRanked => (enable_persona /\ Truthy(args.user_job) /\ loc.keywords = <<>>)
        /\ (loc.keywords = <<>> /\ enable_persona /\ Truthy(args.user_job)) => PersonaRanked

\* The branches of search_tasks in the order the claim gives, and for the
\* query of the call which of their tests hold
BranchOrder == <<"completed", "mine", "others", "meeting", "assignee">>

BranchTests ==
    LET ql == Lower(args.user_query)
    IN  << IsCompletedQuery(ql), IsMyTaskQuery(ql), IsOthersQuery(ql),
           IsMeetingOnly(loc.t.meeting_id, loc.t.found_name), TRUE >>

\* Whether the task statement the call built is the statement of the branch
StatementOf(branch, q) ==
    CASE branch = "completed" -> q.order = "updated" /\ q.user_id = args.user_id /\ q.status = COMPLETED
      [] branch = "mine"      -> q.order = "due" /\ q.user_id = args.user_id /\ q.not_user_id = 0
                                    /\ q.assignee_like = Null
      [] branch = "others"    -> q.order = "due" /\ q.user_id = 0 /\ q.assignee_like = Null
                                    /\ (q.not_user_id = args.user_id \/ q = TaskQuery)
      [] branch = "meeting"   -> q.order = "due" /\ q.user_id = 0 /\ q.assignee_like = Null
                                    /\ q.meeting_id = loc.t.meeting_id /\ q.meeting_id # 0
      [] branch = "assignee"  -> q.order = "due" /\ q.user_id = 0 /\ q.not_user_id = 0
                                    /\ \/ q.assignee_like = loc.t.found_name /\ loc.t.found_name # Null
                                       \/ q = TaskQuery

\* A call of search_tasks that went past its tests before the branches: it
\* got its connection, its user statements succeeded, and it did not ask
\* which meeting is meant
PastDispatch ==
    /\ entry = "search_tasks" /\ pc \in {"st_query", "st_action_items", "st_title", "st_answer", "st_exit", "done"}
    /\ hist.connected /\ hist.store_failed # "users"
    /\ loc.pending.message.kind # "which_meeting"

NamesAnotherUser ==
    \E u \in store.user : u.id # args.user_id /\ Contains(args.user_query, u.name)

HasBackReference == has_meeting_pronoun(args.user_query)

\* A call of search_tasks that has run its name loop
AfterNameLoop ==
    /\ entry = "search_tasks"
    /\ pc \in {"st_query", "st_action_items", "st_title", "st_answer", "st_exit", "done"}
    /\ hist.connected /\ hist.store_failed # "users"

\* C24: in search_tasks, when the query contains another user's name and no
\* back-reference signal (a demonstrative followed by a token at least 0.5
\* similar to 회의, or the literal 거기 / 여기), the established context
\* meeting is discarded and every later query of the request is unscoped by
\* meeting; when the back-reference signal is present, the context meeting
\* is kept.
C24_NameDropsContext ==
    AfterNameLoop =>
        /\ (NamesAnotherUser /\ ~HasBackReference) =>
              /\ loc.t.meeting_id = 0
              /\ loc.t.query.meeting_id = 0
              /\ pc # "st_title"
        /\ (NamesAnotherUser /\ HasBackReference) => loc.t.meeting_id = args.meeting_id

\* C24 witness: a call made within meeting 2 whose query names another user
\* without a back-reference returned a row of another meeting
C24_Witness ==
    /\ pc = "done" /\ AfterNameLoop
    /\ NamesAnotherUser /\ ~HasBackReference
    /\ args.meeting_id = 2
    /\ \E i \in 1..Len(result.records) : result.records[i].meeting_id # 2

\* The other case of C24: the query names another user with a back-reference,
\* and the task statement stays within the meeting of the context
ContextKeptState ==
    /\ pc = "done" /\ AfterNameLoop
    /\ NamesAnotherUser /\ HasBackReference
    /\ args.meeting_id # 0 /\ loc.t.query.meeting_id = args.meeting_id

\* The filters a ladder query can carry
LadderFilters == {"state", "dates"}

\* Query q carries filter f
AppliesFilter(q, f) ==
    IF f = "state" THEN q.status # Null
    ELSE q.start # NoDt \/ q.end # NoDt

\* The ladder of the finished call ran its rung 1 query
Rung1Ran == pc = "done" /\ "rung1" \in Range(hist.rungs) /\ Len(hist.queries) >= 2

\* C27: the ladder relaxes monotonically: a filter that an earlier query of
\* the ladder carried and a later one dropped is carried by no query after
\* that; in particular the rung 2 query, run after rung 1 dropped the
\* lifecycle state, has no lifecycle-state condition.
C27_LadderMonotone ==
    Rung1Ran =>
        \A f \in LadderFilters :
            \A i \in 1..Len(hist.queries) : \A j \in 1..Len(hist.queries) : \A k \in 1..Len(hist.queries) :
                ( i < j /\ j < k
                  /\ AppliesFilter(hist.queries[i], f) /\ ~AppliesFilter(hist.queries[j], f) ) =>
                    ~AppliesFilter(hist.queries[k], f)

\* C27 for the dates alone: once a query of the ladder ran without the date
\* window, no later query of the same call carries it
DatesStayDropped ==
    pc = "done" =>
        \A i \in 1..Len(hist.queries) : \A j \in 1..Len(hist.queries) :
            (i < j /\ ~AppliesFilter(hist.queries[i], "dates")) =>
                ~AppliesFilter(hist.queries[j], "dates")

\* A call whose rung 2 query ran after the primary query and rung 1
Rung2AfterRung1 == Rung1Ran /\ Len(hist.queries) = 3

\* The finished call answered from rung 2: nothing on the requested date,
\* but meetings on other dates
OtherDatesAnswer ==
    /\ pc = "done" /\ entry = "search_meetings_direct"
    /\ result.outcome = "returned" /\ result.message.kind = "other_date"
    /\ hist.queries # <<>>

\* The row is scheduled inside the date window of the primary query
InRequestedWindow(row) ==
    /\ DtLE(hist.queries[1].start, row.scheduled_at)
    /\ DtLE(row.scheduled_at, hist.queries[1].end)

\* C28: whenever rung 2 succeeds and the answer says that nothing was found
\* for the requested date but meetings exist on other dates, none of the
\* returned meetings is scheduled inside the requested date window.
C28_OtherDatesOutsideWindow ==
    OtherDatesAnswer =>
        \A i \in 1..Len(result.records) : ~InRequestedWindow(result.records[i])

\* C28 for a request of one keyword and no state, whose rung 2 keywords are
\* the keywords of the primary query: the rows of the answer all lie outside
\* the window
OtherDatesOutsideForSameFilters ==
    ( OtherDatesAnswer /\ Len(hist.queries) = 2
      /\ hist.queries[1].status = Null
      /\ Len(hist.queries[1].keywords) = 1
      /\ hist.queries[2].keywords = hist.queries[1].keywords ) =>
        \A i \in 1..Len(result.records) : ~InRequestedWindow(result.records[i])

\* C29: a request holds at most one store connection at any moment: no entry
\* point acquires a second connection while one it acquired earlier is still
\* open, also where search_meetings_direct hands a count question to
\* search_meeting_count.
C29_OneConnectionAtATime == Len(open) <= 1

\* C29 outside the count delegation: the requester lookup releases its
\* connection before the main one is acquired, and every other entry point
\* holds one connection
OneConnectionOutsideDelegation ==
    ~(entry = "search_meetings_direct" /\ loc.c.ret = "smd_count_return") => Len(open) <= 1

\* A call of search_meetings_direct that acquired two connections in turn:
\* one for the requester lookup and the main one
TwoConnectionsInTurn ==
    pc = "done" /\ entry = "search_meetings_direct" /\ hist.acquired = 2 /\ hist.max_open = 1

\* A finished bypass call (list-style or date-only) whose requester has no
\* name: no identifier was given, or the identifier has no row of user.
\* Every connection was given, no store call failed and date_info is a
\* DateInfo.
NamelessBypassDone ==
    /\ BypassCallDone
    /\ IsDict(args.date_info)
    /\ ~Truthy(loc.user_name)

\* C30: the requester-attendance filter is optional in the bypass paths too:
\* a list-style or date-only request whose requester has no name runs its
\* listing query without the attendance filter and returns the matching
\* meetings or a 'no meetings' message, never the generic 'search failed'
\* message.
C30_BypassWithoutRequester ==
    NamelessBypassDone =>
        /\ result.outcome = "returned"
        /\ result.message.kind # "search_error"
        /\ Len(hist.listings) = 1
        /\ hist.listings[1].p_name = Null

\* C30 for a requester with a name: the bypass paths run their listing with
\* the attendance filter and do not answer 'search failed'
NamedBypassAnswers ==
    (BypassCallDone /\ IsDict(args.date_info) /\ Truthy(loc.user_name)) =>
        /\ result.outcome = "returned"
        /\ result.message.kind # "search_error"
        /\ Len(hist.listings) = 1
        /\ hist.listings[1].p_name = loc.user_name

(***************************************************************************)
(* Claims about the keyword extractor (checked under SpecKeywords)         *)
(***************************************************************************)
\* C13: the keyword extractor is idempotent: for every query, the keywords
\* extracted from the keywords of the query joined with spaces are the same
\* set as the keywords of the query.
C13_ExtractorIdempotent ==
    kpc = "again" => Range(kagain) = Range(kres)

(***************************************************************************)
(* Claims about the persona ranking (checked under SpecPersona)            *)
(***************************************************************************)
\* The fields search_with_persona adds to a row
RankFields == {"relevance_score"}

\* The row without the fields the ranking added
Undecorated(row) == [f \in DOMAIN row \ RankFields |-> row[f]]

\* Whether the list that came back is the list that went in, reordered
IsPermutation(out, inp) ==
    /\ Len(out) = Len(inp)
    /\ \E f \in [1..Len(out) -> 1..Len(inp)] :
          /\ \A i \in 1..Len(out) : \A j \in 1..Len(out) : i # j => f[i] # f[j]
          /\ \A i \in 1..Len(out) : Undecorated(out[i]) = inp[f[i]]

\* C15: persona ranking never filters: for every list of meetings and every
\* persona tag (None, NONE and an unknown tag included) search_with_persona
\* returns a permutation of its input, no meeting dropped and none
\* duplicated.
C15_PersonaPermutation ==
    rpc = "ranked" =>
        /\ rfinal.raised = "no"
        /\ IsPermutation(rfinal.final_sorted, rmeetings)

\* Of the calls that return, each returns a permutation of its input
PersonaPermutationWhenReturned ==
    (rpc = "ranked" /\ rfinal.raised = "no") => IsPermutation(rfinal.final_sorted, rmeetings)

\* The time distance of a returned row, as search_with_persona computes it
DistanceOf(row) ==
    IF row.scheduled_at = NoDt THEN Infinity ELSE TimeDistance(row.scheduled_at, RequestNow)

\* The sizes a top tier of 70% of n candidates can have: 7n/10 rounded down
\* or rounded up
TopTierSizes(n) == {k \in 0..n : 10 * k >= 7 * n - 9 /\ 10 * k <= 7 * n + 9}

\* Whether out is a top tier of k rows in ascending time distance, none of
\* them scored below a row of the bottom tier, followed by the bottom tier in
\* descending score
IsTieredAt(out, k) ==
    /\ \A i \in 1..k : \A j \in (k + 1)..Len(out) :
          out[i].relevance_score >= out[j].relevance_score
    /\ \A i \in 1..(k - 1) : SeqLE(DistanceOf(out[i]), DistanceOf(out[i + 1]))
    /\ \A j \in (k + 1)..(Len(out) - 1) : out[j].relevance_score >= out[j + 1].relevance_score

\* C21: search_with_persona splits the candidates into a top tier holding
\* the top 70% of the candidates by persona score and a bottom tier holding
\* the bottom 30%; the result is the top tier in ascending time distance from
\* now followed by the bottom tier in descending score.
C21_TiersSeventyThirty ==
    (rpc = "ranked" /\ rfinal.raised = "no") =>
        \E k \in TopTierSizes(Len(rfinal.final_sorted)) : IsTieredAt(rfinal.final_sorted, k)

\* What the call does return: some split, of whatever size, into a tier in
\* ascending time distance followed by a tier in descending score
TieredAtSomeSplit ==
    (rpc = "ranked" /\ rfinal.raised = "no") =>
        \E k \in 0..Len(rfinal.final_sorted) : IsTieredAt(rfinal.final_sorted, k)

(***************************************************************************)
(* Claims about merge_tasks_and_actions (checked under SpecMerge)          *)
(***************************************************************************)
\* The rows handed in, tasks first, each task with the label the merge sets
MergeInputs ==
    [i \in 1..Len(mtasks) |-> [source_table |-> "task"] @@ mtasks[i]] \o mactions

\* Where a row stands in the input
InputPosition(row) == CHOOSE i \in 1..Len(MergeInputs) : MergeInputs[i] = row

\* Due date a is not after due date b, a row without a due date after all
DueNotAfter(a, b) == b = NoDt \/ (a # NoDt /\ DtLE(a, b))

\* Row x may stand before row y: by due date, and by input order when the
\* due dates are equal
MayPrecede(x, y) ==
    /\ DueNotAfter(x.due_date, y.due_date)
    /\ x.due_date = y.due_date => InputPosition(x) < InputPosition(y)

\* C25: for every pair of input lists, merge_tasks_and_actions returns the
\* union of the Task rows and the ActionItem rows sorted by due date
\* ascending with every row lacking a due date after every row that has one,
\* truncated to at most 30 rows; every returned row comes from one of the
\* inputs and rows with equal due date keep their input order.
C25_MergeSortedCapped ==
    mpc = "merged" =>
        LET n == Len(mmerged)
            returned == {mmerged[k] : k \in 1..n}
        IN  /\ n = (IF Len(MergeInputs) < 30 THEN Len(MergeInputs) ELSE 30)
            /\ \A k \in 1..n : \E i \in 1..Len(MergeInputs) : MergeInputs[i] = mmerged[k]
            /\ Cardinality(returned) = n
            /\ \A k \in 1..(n - 1) : MayPrecede(mmerged[k], mmerged[k + 1])
            /\ \A i \in 1..Len(MergeInputs) :
                  MergeInputs[i] \notin returned => MayPrecede(mmerged[n], MergeInputs[i])

\* C25 witness: more than 30 rows went in and 30 came out, among them rows of
\* both inputs with one due date and rows without a due date
C25_Witness ==
    /\ mpc = "merged"
    /\ Len(mtasks) + Len(mactions) > 30 /\ Len(mmerged) = 30
    /\ \E k \in 1..29 :
          /\ mmerged[k].due_date = mmerged[k + 1].due_date /\ mmerged[k].due_date # NoDt
          /\ mmerged[k].source_table = "task" /\ mmerged[k + 1].source_table = "action_item"
    /\ \E k \in 1..30 : mmerged[k].due_date = NoDt

====
